---- MODULE Spec2Model ----
(***************************************************************************)
(* Harvest pipeline of OER_Phoenix: the retry/backoff HTTP helper, the     *)
(* fetch loops of the API and OAI-PMH adapters, the URL extraction of the  *)
(* MARCXML and OAI-PMH adapters, and the harvest job controllers           *)
(* (BaseHarvester, APIHarvester, KBARTHarvester, OERHarvester); the search *)
(* engine (keyword, semantic and hybrid ranking over the retrievers), the  *)
(* per-source request headers, and the embedding / extraction tasks        *)
(* enqueued by the post_save signal.                                       *)
(***************************************************************************)
EXTENDS Integers, Sequences, FiniteSets, TLC

VARIABLES
    rr,     \* one call of utils.request_with_retry
    ft,     \* one call of fetch_and_process_records of the API / OAI-PMH adapter
    pz,     \* one record run through an adapter's parser
    env,    \* the harvested source: harvester in use, record cap, unchanged data
    store,  \* the OERResource table, in creation order
    jobs,   \* the HarvestJob table, in creation order
    srcs,   \* the OERSource rows (aggregates)
    runs,   \* the harvest() executions: position and local variables
    se,     \* one call of the search engine (OERSearchEngine)
    rk,     \* one call of a search pass over the resource table
    hd,     \* the API source's key and headers over its harvests
    em      \* one resource, its embedding and the task queue

hv == <<env, store, jobs, srcs, runs>>

vars == <<rr, ft, pz, env, store, jobs, srcs, runs, se, rk, hd, em>>

(***************************************************************************)
(* Bounds of the model.                                                    *)
(***************************************************************************)
MaxAttempts == 3        \* largest max_attempts a caller passes
MaxTokenPages == 2      \* largest number N of pages that carry a resumptionToken
MaxFields == 2          \* most 856 datafields / dc:identifier elements of one record
MaxRecords == 2         \* most records the harvested source delivers
MaxFaults == 1          \* most injected persistence / network faults per behaviour
PerPage == 2            \* pagination_config max_per_page of the REST source (default 100)
MaxElements == 2        \* most elements of the results array of an API payload
MaxHits == 2            \* most results of one search pass
MaxQueryLen == 3        \* most characters of a search query
MaxCatalog == 2         \* most rows of the resource table a search runs over
MaxLimit == 2           \* largest limit a search is called with
MaxPeers == 3           \* most rows of a table of resources with equal text
MaxCount == 3           \* where the counters of a run against an endless server are held
MaxKeyChanges == 2      \* most replacements of a source's api_key
MaxHarvests == 3        \* most harvests of the API source
MaxSaves == 1           \* most later harvest saves of the resource

(***************************************************************************)
(* The HTTP environment: what one outbound request can be answered with.   *)
(* kind "exc" is a network-level requests.RequestException (no response);  *)
(* kind "resp" is a response with a status and a body that the adapter's   *)
(* parser (response.json(), ET.fromstring) accepts (bodyOk) or rejects.    *)
(***************************************************************************)
Statuses == {200, 404, 429, 503}

NoResponse == [kind |-> "none", status |-> 0, bodyOk |-> FALSE]

Answers ==
    {[kind |-> "resp", status |-> s, bodyOk |-> b] : s \in Statuses, b \in BOOLEAN}
        \cup {[kind |-> "exc", status |-> 0, bodyOk |-> FALSE]}

\* utils.py:26, api_harvester.py:153, oaipmh_harvester.py:143
IsTransientStatus(s) == s = 429 \/ (500 <= s /\ s < 600)

IsTransient(a) == a.kind = "exc" \/ (a.kind = "resp" /\ IsTransientStatus(a.status))

\* response.raise_for_status(): raises HTTPError for 4xx and 5xx
RaiseForStatusRaises(s) == 400 <= s /\ s < 600

(***************************************************************************)
(* request_with_retry (harvesters/utils.py).                               *)
(***************************************************************************)
RRIdle ==
    [pc |-> "idle", max_attempts |-> 0, attempts |-> 0, last_exc |-> "None",
     requests |-> 0, answers |-> <<>>, sleeps |-> <<>>, result |-> NoResponse]

\* the mutant of the loop condition: one attempt too many
RetryLoopContinuesOffByOne(r) == r.attempts <= r.max_attempts

\* `while attempts < max_attempts`
RetryLoopContinues(r) == r.attempts < r.max_attempts

RequestWithRetryCall(m) ==
    /\ rr.pc = "idle"
    /\ ft.pc = "idle"
    /\ rr' = [RRIdle EXCEPT !.pc = "loop", !.max_attempts = m]
    /\ UNCHANGED <<em, hd, rk, se, ft, pz, hv>>

\* one iteration of the while loop: the request, then return / sleep+continue
RequestWithRetryAttempt(a) ==
    /\ rr.pc = "loop"
    /\ RetryLoopContinues(rr)
    /\ LET n == rr.attempts + 1
           sent == [rr EXCEPT !.attempts = n, !.requests = @ + 1,
                              !.answers = Append(@, a)]
       IN  IF a.kind = "exc"
           THEN rr' = [sent EXCEPT !.last_exc = "RequestException",
                                   !.sleeps = Append(@, n)]
           ELSE IF IsTransientStatus(a.status)
           THEN rr' = [sent EXCEPT !.sleeps = Append(@, n),
                                   !.last_exc = "HTTPError"]
           ELSE rr' = [sent EXCEPT !.pc = "returned", !.result = a]
    /\ UNCHANGED <<em, hd, rk, se, ft, pz, hv>>

\* after the loop: `raise last_exc` or the "Unknown request failure" error
RequestWithRetryExhausted ==
    /\ rr.pc = "loop"
    /\ ~RetryLoopContinues(rr)
    /\ rr' = [rr EXCEPT !.pc = "raised",
                        !.last_exc = IF @ = "None" THEN "RequestException" ELSE @]
    /\ UNCHANGED <<em, hd, rk, se, ft, pz, hv>>

(***************************************************************************)
(* The fetch loops of APIHarvester.fetch_and_process_records and           *)
(* OAIPMHHarvester.fetch_records / fetch_and_process_records.  Both files  *)
(* carry the same hand-written loop of FetchAttempts attempts.             *)
(***************************************************************************)
FetchAttempts == 4

Adapters == {"api", "oai"}

FTIdle ==
    [pc |-> "idle", adapter |-> "api", tokenPages |-> 0, attempts |-> 0,
     response |-> NoResponse, requests |-> 0, answers |-> <<>>,
     served |-> <<>>, parsed |-> NoResponse, records |-> <<>>,
     error |-> "", job |-> "none"]

\* The OAI-PMH server of the claim: tokenPages pages carry a resumptionToken,
\* the page after them carries none (token 0 stands for absent / empty).
OAIServerPage(token) == token + 1

OAIServerToken(page, n) == IF page <= n THEN page ELSE 0

\* records carried by page p of the server: one record, labelled by its page
PageRecords(p) == <<p>>

\* the request built at the top of fetch_records: verb=ListRecords,
\* metadataPrefix and the optional set; it never carries a resumptionToken
OAIListRecordsToken == 0

\* `if response.status_code >= 500 or response.status_code == 429`
FetchRetryStatus(s) == s >= 500 \/ s = 429

\* harvest() creates the job in status running and calls the fetch
FetchStart(ad, n) ==
    /\ rr.pc = "idle"
    /\ ft.pc = "idle"
    /\ ft' = [FTIdle EXCEPT !.pc = "loop", !.adapter = ad, !.tokenPages = n,
                            !.job = "running"]
    /\ UNCHANGED <<em, hd, rk, se, rr, pz, hv>>

\* what follows the while loop: `if response is None: raise`, then the body of
\* the response at hand is parsed (response.json() / ET.fromstring) whatever
\* its status; a parse error propagates, and harvest() marks the job failed
FetchFinish(f) ==
    IF f.response.kind = "none"
    THEN [f EXCEPT !.pc = "raised", !.error = "fetch failed after retries",
                   !.job = "failed"]
    ELSE IF ~f.response.bodyOk
    THEN [f EXCEPT !.pc = "raised", !.parsed = f.response,
                   !.error = "parse error", !.job = "failed"]
    ELSE [f EXCEPT !.pc = "returned", !.parsed = f.response,
                   !.records = IF f.response.status = 200
                               THEN PageRecords(OAIServerPage(OAIListRecordsToken))
                               ELSE <<>>]

\* one iteration of `while attempts < 4`
FetchAttempt(a) ==
    /\ ft.pc = "loop"
    /\ ft.attempts < FetchAttempts
    /\ LET n == ft.attempts + 1
           sent == [ft EXCEPT !.attempts = n, !.requests = @ + 1,
                              !.answers = Append(@, a)]
           \* requests.get raised: `response` keeps its previous value
           got == IF a.kind = "exc" THEN sent ELSE [sent EXCEPT !.response = a]
           break == /\ a.kind = "resp"
                    /\ ~FetchRetryStatus(a.status)
                    /\ ~RaiseForStatusRaises(a.status)
           seen == IF break
                   THEN [got EXCEPT !.served =
                            Append(@, OAIServerPage(OAIListRecordsToken))]
                   ELSE got
       IN  ft' = IF break \/ n >= FetchAttempts THEN FetchFinish(seen) ELSE seen
    /\ UNCHANGED <<em, hd, rk, se, rr, pz, hv>>

(***************************************************************************)
(* Text values.  A Python str is a sequence of one-character strings, so   *)
(* that strip(), lower() and startswith() are computed, not assumed.       *)
(***************************************************************************)
HttpsX == <<"h", "t", "t", "p", "s", ":", "/", "/", "x">>
UpperHttpX == <<"H", "T", "T", "P", ":", "/", "/", "x">>
PaddedHttpX == <<" ", "h", "t", "t", "p", ":", "/", "/", "x", " ">>
Isbn == <<"9", "7", "8">>
HttpWord == <<"h", "t", "t", "p", "x">>
Empty == <<>>

RawValues == {Empty, HttpsX, UpperHttpX, PaddedHttpX, Isbn, HttpWord}

LowerChar(c) ==
    CASE c = "H" -> "h" [] c = "T" -> "t" [] c = "P" -> "p" [] c = "S" -> "s"
      [] OTHER -> c

StrLower(s) == [i \in 1..Len(s) |-> LowerChar(s[i])]

RECURSIVE LStrip(_)
LStrip(s) == IF s # <<>> /\ Head(s) = " " THEN LStrip(Tail(s)) ELSE s

RECURSIVE RStrip(_)
RStrip(s) ==
    IF s # <<>> /\ s[Len(s)] = " " THEN RStrip(SubSeq(s, 1, Len(s) - 1)) ELSE s

StrStrip(s) == LStrip(RStrip(s))

StartsWith(s, prefix) ==
    Len(s) >= Len(prefix) /\ SubSeq(s, 1, Len(prefix)) = prefix

HttpScheme == <<"h", "t", "t", "p", ":", "/", "/">>
HttpsScheme == <<"h", "t", "t", "p", "s", ":", "/", "/">>
HttpPrefix == <<"h", "t", "t", "p">>

\* marcxml_harvester._normalise_url
NormaliseUrl(raw) ==
    IF raw = Empty THEN Empty
    ELSE LET stripped == StrStrip(raw)
         IN  IF \/ StartsWith(StrLower(stripped), HttpScheme)
                \/ StartsWith(StrLower(stripped), HttpsScheme)
             THEN stripped
             ELSE Empty

\* first non-empty element of a sequence, else Empty
FirstNonEmpty(seq) ==
    LET hits == {i \in 1..Len(seq) : seq[i] # Empty}
    IN  IF hits = {} THEN Empty
        ELSE seq[CHOOSE i \in hits : \A j \in hits : i <= j]

\* `for i in ids: if text.startswith('http'): return text`, else ''
FirstStartingHttp(seq) ==
    LET hits == {i \in 1..Len(seq) : StartsWith(seq[i], HttpPrefix)}
    IN  IF hits = {} THEN Empty
        ELSE seq[CHOOSE i \in hits : \A j \in hits : i <= j]

\* the $u subfields one 856 datafield can carry
SubfieldLists ==
    {<<>>} \cup {<<a>> : a \in RawValues} \cup {<<a, b>> : a \in RawValues, b \in {Empty, Isbn}}

RECURSIVE SeqsUpTo(_, _)
SeqsUpTo(S, n) ==
    IF n = 0 THEN {<<>>}
    ELSE LET shorter == SeqsUpTo(S, n - 1)
         IN  shorter \cup {Append(q, x) : q \in {t \in shorter : Len(t) = n - 1}, x \in S}

\* _parse_with_pymarc: url = first $u of the first 856 field that has a $u
PymarcUrl(fields856) ==
    LET us == FirstNonEmpty(fields856)
    IN  IF us = <<>> THEN Empty ELSE us[1]

\* _parse_with_elementtree: subfield_text(df, 'u') is the stripped text of the
\* first $u of the field; url = the first non-empty one
ElementTreeUrl(fields856) ==
    LET texts == [i \in 1..Len(fields856) |->
                    IF fields856[i] = <<>> THEN Empty ELSE StrStrip(fields856[i][1])]
    IN  FirstNonEmpty(texts)

\* the record either MARCXML tier appends: title falls back to the ISBN or
\* 'Untitled', the url goes through _normalise_url
MarcRecord(tier, title, fields856) ==
    [title |-> IF title # Empty THEN title ELSE <<"U">>,
     url |-> NormaliseUrl(IF tier = "pymarc" THEN PymarcUrl(fields856)
                          ELSE ElementTreeUrl(fields856))]

\* OAIPMHHarvester.process_record, get_identifier: the first dc:identifier,
\* dc:uri or dc:link with a text wins; only when all three are empty does the
\* scan for an identifier starting with 'http' run
OAIGetIdentifier(identifiers, uri, link) ==
    LET firstId == IF identifiers = <<>> THEN Empty ELSE identifiers[1]
    IN  IF firstId # Empty THEN firstId
        ELSE IF uri # Empty THEN uri
        ELSE IF link # Empty THEN link
        ELSE FirstStartingHttp(identifiers)

NoRecord == [title |-> Empty, url |-> Empty]

\* process_record returns None unless title and url are both non-empty
OAIProcessRecord(title, identifiers, uri, link) ==
    LET url == OAIGetIdentifier(identifiers, uri, link)
    IN  IF title = Empty \/ url = Empty
        THEN [accepted |-> FALSE, rec |-> NoRecord]
        ELSE [accepted |-> TRUE, rec |-> [title |-> title, url |-> url]]

Titles == {Empty, <<"t">>}

PZIdle ==
    [op |-> "none", title |-> Empty, ids |-> <<>>, uri |-> Empty, link |-> Empty,
     accepted |-> FALSE, rec |-> NoRecord]

ParseMarc(tier, title, fields856) ==
    /\ pz.op = "none"
    /\ pz' = [PZIdle EXCEPT !.op = tier, !.title = title, !.ids = fields856,
                            !.accepted = TRUE,
                            !.rec = MarcRecord(tier, title, fields856)]
    /\ UNCHANGED <<em, hd, rk, se, rr, ft, hv>>

ParseOAI(title, identifiers, uri, link) ==
    /\ pz.op = "none"
    /\ LET out == OAIProcessRecord(title, identifiers, uri, link)
       IN  pz' = [PZIdle EXCEPT !.op = "oai", !.title = title, !.ids = identifiers,
                                !.uri = uri, !.link = link,
                                !.accepted = out.accepted, !.rec = out.rec]
    /\ UNCHANGED <<em, hd, rk, se, rr, ft, hv>>

(***************************************************************************)
(* The harvest job controllers.                                            *)
(*                                                                         *)
(* A record is [title, url, description]; "" is a missing value.  The      *)
(* adapter's output for the harvested source is env.feed and stays the     *)
(* same for every run (unchanged source data).  _t() truncation to the     *)
(* column widths is not modelled: every value here is shorter.  The run    *)
(* fields touched, faults, raised and store0 are history: they record what *)
(* the run did and are read by the properties only.                        *)
(***************************************************************************)
Sources == {"A", "B"}

Runs == {"r1", "r2"}

Harvesters == {"base", "api", "kbart", "rest"}

RecordSet ==
    { [title |-> "t1", url |-> "u1", description |-> "d1"],
      [title |-> "t1", url |-> "u1", description |-> ""],
      [title |-> "t2", url |-> "u2", description |-> "d1"],
      [title |-> "",   url |-> "u2", description |-> ""],
      [title |-> "t1", url |-> "",   description |-> ""],
      [title |-> "",   url |-> "",   description |-> ""] }

Terminal == {"completed", "partial", "failed"}

\* HarvestJob.objects.create(source=..., status='running', started_at=now)
NewJob(s) ==
    [source |-> s, status |-> "running", resources_found |-> 0,
     resources_created |-> 0, resources_updated |-> 0, resources_skipped |-> 0,
     resources_failed |-> 0, pages_processed |-> 0, api_calls_made |-> 0,
     error_message |-> "", log_messages |-> <<>>]

NoRow == [source |-> "", url |-> "", title |-> "", description |-> ""]

\* the result of a lookup that has not yet been followed by its write
NoHit == [outcome |-> "none", k |-> 0, obj |-> NoRow]

RunIdle ==
    [pc |-> "idle", source |-> "A", jid |-> 0, job |-> NewJob("A"),
     total_harvested |-> 0, records |-> <<>>, i |-> 0,
     created |-> 0, updated |-> 0, skipped |-> 0, failed |-> 0,
     found |-> 0, page |-> 0, touched |-> FALSE, faults |-> 0, error |-> "",
     store0 |-> 0, raised |-> 0, hit |-> NoHit]

Finished(r) == runs[r].pc \in {"returned", "raised"}

FaultsUsed == runs["r1"].faults + runs["r2"].faults

\* `records[:max_resources]` when max_resources > 0
ApplyCap(records, cap) ==
    IF cap > 0 /\ Len(records) > cap THEN SubSeq(records, 1, cap) ELSE records

MatchesUrl(st, url) == {k \in 1..Len(st) : st[k].url = url}

\* OERResource.objects.update_or_create(url=..., defaults={..., 'source': self.source}):
\* the lookup is by url alone; one match is overwritten with every default,
\* no match creates, several matches raise MultipleObjectsReturned
UpdateOrCreate(st, s, rec) ==
    LET m == MatchesUrl(st, rec.url)
        row == [source |-> s, url |-> rec.url, title |-> rec.title,
                description |-> rec.description]
    IN  IF m = {} THEN [outcome |-> "created", store |-> Append(st, row)]
        ELSE IF Cardinality(m) = 1
        THEN [outcome |-> "updated",
              store |-> [st EXCEPT ![CHOOSE k \in m : TRUE] = row]]
        ELSE [outcome |-> "raised", store |-> st]

\* job.save(): the in-memory job object overwrites its row
SaveJob(js, run) == [js EXCEPT ![run.jid] = run.job]

\* create_harvest_job / HarvestJob.objects.create at the top of harvest();
\* the harvester holds the OERSource instance its caller loaded
StartRun(r, s) ==
    /\ runs[r].pc = "idle"
    /\ r = "r2" => Finished("r1")
    /\ jobs' = Append(jobs, NewJob(s))
    /\ runs' = [runs EXCEPT ![r] =
            [RunIdle EXCEPT !.pc = "fetch", !.source = s, !.jid = Len(jobs) + 1,
                            !.job = NewJob(s), !.store0 = Len(store),
                            !.total_harvested = srcs[s].total_harvested]]
    /\ UNCHANGED <<em, hd, rk, se, rr, ft, pz, env, store, srcs>>

\* MARCXMLHarvester._parse_with_pymarc: the records, or None when pymarc is
\* not installed or raises on the content
ParseWithPymarc(e, installed) ==
    IF ~installed \/ e.malformed THEN [none |-> TRUE, records |-> <<>>]
    ELSE [none |-> FALSE, records |-> e.feed]

\* MARCXMLHarvester._parse_with_elementtree: `except Exception: return []`
ParseWithElementTree(e) == IF e.malformed THEN <<>> ELSE e.feed

\* MARCXMLHarvester.fetch_and_process_records: `records or []`
MarcFetchAndProcessRecords(e, installed) ==
    IF ParseWithPymarc(e, installed).none THEN ParseWithElementTree(e)
    ELSE ParseWithPymarc(e, installed).records

\* fetch_and_process_records() returns the adapter's records; the cap is
\* applied before the upsert loop (base_harvester.py 86-92, api_harvester.py 75-82)
FetchReturns(r) ==
    /\ runs[r].pc = "fetch"
    /\ env.harvester \in {"base", "api"}
    /\ \E installed \in BOOLEAN :
          runs' = [runs EXCEPT
                      ![r].pc = "upsert",
                      ![r].records =
                          ApplyCap(IF env.harvester = "base"
                                   THEN MarcFetchAndProcessRecords(env, installed)
                                   ELSE env.feed,
                                   env.cap),
                      ![r].i = 1]
    /\ UNCHANGED <<em, hd, rk, se, rr, ft, pz, env, store, jobs, srcs>>

\* fetch_and_process_records() raises: control goes to harvest()'s except clause
FetchRaises(r) ==
    /\ runs[r].pc = "fetch"
    /\ env.harvester \in {"base", "api"}
    /\ FaultsUsed < MaxFaults
    /\ runs' = [runs EXCEPT ![r].pc = "except", ![r].error = "fetch failed",
                            ![r].faults = @ + 1]
    /\ UNCHANGED <<em, hd, rk, se, rr, ft, pz, env, store, jobs, srcs>>

\* one pass of `for record_data in records` in BaseHarvester.harvest and
\* APIHarvester.harvest; dbFault is a database error raised by the upsert.
\* BaseHarvester counts the failure on the job object, APIHarvester only logs it.
UpsertRecord(r, dbFault) ==
    /\ runs[r].pc = "upsert"
    /\ runs[r].i <= Len(runs[r].records)
    /\ dbFault => FaultsUsed < MaxFaults
    /\ LET run == runs[r]
           res == UpdateOrCreate(store, run.source, run.records[run.i])
           raised == dbFault \/ res.outcome = "raised"
       IN  /\ store' = IF raised THEN store ELSE res.store
           /\ runs' = [runs EXCEPT ![r] =
                [run EXCEPT
                    !.i = @ + 1,
                    !.faults = IF dbFault THEN @ + 1 ELSE @,
                    !.touched = @ \/ ~raised,
                    !.raised = IF raised THEN @ + 1 ELSE @,
                    !.created = IF ~raised /\ res.outcome = "created" THEN @ + 1 ELSE @,
                    !.updated = IF ~raised /\ res.outcome = "updated" THEN @ + 1 ELSE @,
                    !.job.resources_failed =
                        IF raised /\ env.harvester = "base" THEN @ + 1 ELSE @]]
    /\ UNCHANGED <<em, hd, rk, se, rr, ft, pz, env, jobs, srcs>>

\* FinalizeJob with resources_found taken from the adapter's list before the cap
FinalizeJobCountsUncapped(r) ==
    /\ runs[r].pc = "upsert"
    /\ runs[r].i > Len(runs[r].records)
    /\ LET run == runs[r]
           done == [run EXCEPT !.pc = "source_stats",
                               !.job.status = "completed",
                               !.job.resources_found = Len(env.feed),
                               !.job.resources_created = run.created,
                               !.job.resources_updated = run.updated]
       IN  /\ runs' = [runs EXCEPT ![r] = done]
           /\ jobs' = SaveJob(jobs, done)
    /\ UNCHANGED <<em, hd, rk, se, rr, ft, pz, env, store, srcs>>

\* after the loop: status 'completed', the counters, job.save()
FinalizeJob(r) ==
    /\ runs[r].pc = "upsert"
    /\ runs[r].i > Len(runs[r].records)
    /\ LET run == runs[r]
           done == [run EXCEPT !.pc = "source_stats",
                               !.job.status = "completed",
                               !.job.resources_found = Len(run.records),
                               !.job.resources_created = run.created,
                               !.job.resources_updated = run.updated]
       IN  /\ runs' = [runs EXCEPT ![r] = done]
           /\ jobs' = SaveJob(jobs, done)
    /\ UNCHANGED <<em, hd, rk, se, rr, ft, pz, env, store, srcs>>

\* `self.source.total_harvested += created_count; self.source.save()` on the
\* instance the harvester holds.  A failing save is swallowed by BaseHarvester
\* (try/except around it) and reaches harvest()'s except clause in APIHarvester.
UpdateSourceStats(r, dbFault) ==
    /\ runs[r].pc = "source_stats"
    /\ dbFault => FaultsUsed < MaxFaults
    /\ LET run == runs[r]
           total == run.total_harvested + run.created
       IN  IF dbFault
           THEN /\ runs' = [runs EXCEPT ![r] =
                        [run EXCEPT !.total_harvested = total, !.faults = @ + 1,
                                    !.error = "source save failed",
                                    !.pc = IF env.harvester = "base"
                                           THEN "samples" ELSE "except"]]
                /\ UNCHANGED srcs
           ELSE /\ runs' = [runs EXCEPT ![r] =
                        [run EXCEPT !.total_harvested = total,
                                    !.pc = IF env.harvester = "base"
                                           THEN "samples" ELSE "returned"]]
                /\ srcs' = [srcs EXCEPT ![run.source].total_harvested = total]
    /\ UNCHANGED <<em, hd, rk, se, rr, ft, pz, env, store, jobs>>

SampleSize == 5

\* BaseHarvester.record_samples: the first n records are appended to
\* log_messages and the job is saved again; then harvest() returns the job
RecordSamples(r) ==
    /\ runs[r].pc = "samples"
    /\ LET run == runs[r]
           n == IF Len(run.records) < SampleSize THEN Len(run.records) ELSE SampleSize
           logged == [run EXCEPT !.pc = "returned",
                                 !.job.log_messages = Append(@, n)]
       IN  IF n > 0
           THEN /\ runs' = [runs EXCEPT ![r] = logged]
                /\ jobs' = SaveJob(jobs, logged)
           ELSE /\ runs' = [runs EXCEPT ![r].pc = "returned"]
                /\ UNCHANGED jobs
    /\ UNCHANGED <<em, hd, rk, se, rr, ft, pz, env, store, srcs>>

\* the `except` clause of harvest() / harvest_from_path(): status 'failed',
\* error_message, job.save(), then `raise`.  OERHarvester also saves its
\* source instance (status 'error') before re-raising.
HarvestExcept(r) ==
    /\ runs[r].pc = "except"
    /\ LET run == runs[r]
           failed == [run EXCEPT !.pc = "raised",
                                 !.job.status = "failed",
                                 !.job.error_message =
                                    IF env.harvester = "kbart"
                                    THEN "Unexpected error during KBART harvest"
                                    ELSE run.error]
       IN  /\ runs' = [runs EXCEPT ![r] = failed]
           /\ jobs' = SaveJob(jobs, failed)
           /\ srcs' = IF env.harvester = "rest" /\ run.error = "request failed"
                      THEN [srcs EXCEPT ![run.source].total_harvested =
                                run.total_harvested]
                      ELSE srcs
    /\ UNCHANGED <<em, hd, rk, se, rr, ft, pz, env, store>>

FeedSet == UNION {[1..n -> RecordSet] : n \in 0..MaxRecords}

\* what fetch_and_process_records can hand to the controller: the API (and
\* OAI-PMH, CSV) adapters append a record only `if title and url`; a MARCXML
\* record (BaseHarvester) has title `title or isbn or 'Untitled'` and any url,
\* "" included; KBART rows and REST pages reach their loops unfiltered
AdapterCanReturn(h, feed) ==
    \A k \in 1..Len(feed) :
        /\ h = "api" => feed[k].title # "" /\ feed[k].url # ""
        /\ h = "base" => feed[k].title # ""

(***************************************************************************)
(* KBARTHarvester.harvest_from_path.                                       *)
(***************************************************************************)
\* self._open(path_or_url) succeeded; csv.DictReader yields the rows
KbartOpen(r) ==
    /\ runs[r].pc = "fetch"
    /\ env.harvester = "kbart"
    /\ runs' = [runs EXCEPT ![r].pc = "rows", ![r].records = env.feed, ![r].i = 1]
    /\ UNCHANGED <<em, hd, rk, se, rr, ft, pz, env, store, jobs, srcs>>

\* self._open raises (missing file, HTTP error): harvest_from_path's except clause
KbartOpenRaises(r) ==
    /\ runs[r].pc = "fetch"
    /\ env.harvester = "kbart"
    /\ FaultsUsed < MaxFaults
    /\ runs' = [runs EXCEPT ![r].pc = "except",
                            ![r].error = "Unexpected error during KBART harvest",
                            ![r].faults = @ + 1]
    /\ UNCHANGED <<em, hd, rk, se, rr, ft, pz, env, store, jobs, srcs>>

\* csv.DictReader raises csv.Error while `for row in reader` advances to row i
\* (malformed line, oversized field): the error is outside the per-row try and
\* reaches harvest_from_path's except clause with the job object as it stands
KbartReaderRaises(r) ==
    /\ runs[r].pc = "rows"
    /\ runs[r].i <= Len(runs[r].records)
    /\ FaultsUsed < MaxFaults
    /\ runs' = [runs EXCEPT ![r].pc = "except",
                            ![r].error = "Unexpected error during KBART harvest",
                            ![r].faults = @ + 1]
    /\ UNCHANGED <<em, hd, rk, se, rr, ft, pz, env, store, jobs, srcs>>

MaxOf(S) == CHOOSE k \in S : \A j \in S : j <= k

\* the row's resource: by (url, source) when the row has a url
\* (OERResource.objects.get: several matches raise), else / then by
\* (title, source) when it has a title (.first() under ordering -created_at)
KbartLookup(st, s, rec) ==
    LET byUrl == {k \in 1..Len(st) : st[k].url = rec.url /\ st[k].source = s}
        byTitle == {k \in 1..Len(st) : st[k].title = rec.title /\ st[k].source = s}
    IN  IF rec.url # "" /\ Cardinality(byUrl) > 1 THEN [outcome |-> "raised", k |-> 0]
        ELSE IF rec.url # "" /\ byUrl # {}
        THEN [outcome |-> "found", k |-> CHOOSE k \in byUrl : TRUE]
        ELSE IF rec.title # "" /\ byTitle # {}
        THEN [outcome |-> "found", k |-> MaxOf(byTitle)]
        ELSE [outcome |-> "none", k |-> 0]

\* defaults = {"title": title or url or "(untitled)", "description": ..., "url": url or ""}
KbartDefaults(rec) ==
    [title |-> IF rec.title # "" THEN rec.title
               ELSE IF rec.url # "" THEN rec.url ELSE "(untitled)",
     url |-> rec.url,
     description |-> rec.description]

\* `for k, v in defaults.items(): if v: setattr(resource, k, v)`
KbartMerge(old, d) ==
    [old EXCEPT !.title = IF d.title # "" THEN d.title ELSE @,
                !.url = IF d.url # "" THEN d.url ELSE @,
                !.description = IF d.description # "" THEN d.description ELSE @]

\* the body of the row loop: update the resource found, else create one
KbartUpsertRow(st, s, rec) ==
    LET hit == KbartLookup(st, s, rec)
        d == KbartDefaults(rec)
    IN  IF hit.outcome = "raised" THEN [outcome |-> "raised", store |-> st]
        ELSE IF hit.outcome = "found"
        THEN [outcome |-> "updated",
              store |-> [st EXCEPT ![hit.k] = KbartMerge(@, d)]]
        ELSE [outcome |-> "created",
              store |-> Append(st, [source |-> s, url |-> d.url, title |-> d.title,
                                    description |-> d.description])]

\* one pass of `for row in reader`
KbartRow(r, dbFault) ==
    /\ runs[r].pc = "rows"
    /\ runs[r].i <= Len(runs[r].records)
    /\ dbFault => FaultsUsed < MaxFaults
    /\ LET run == runs[r]
           res == KbartUpsertRow(store, run.source, run.records[run.i])
           raised == dbFault \/ res.outcome = "raised"
       IN  /\ store' = IF raised THEN store ELSE res.store
           /\ runs' = [runs EXCEPT ![r] =
                [run EXCEPT
                    !.i = @ + 1,
                    !.faults = IF dbFault THEN @ + 1 ELSE @,
                    !.touched = @ \/ ~raised,
                    !.raised = IF raised THEN @ + 1 ELSE @,
                    !.created = IF ~raised /\ res.outcome = "created" THEN @ + 1 ELSE @,
                    !.updated = IF ~raised /\ res.outcome = "updated" THEN @ + 1 ELSE @,
                    !.failed = IF raised THEN @ + 1 ELSE @,
                    !.job.pages_processed = @ + 1,
                    !.job.resources_found = IF raised THEN @ ELSE @ + 1,
                    !.job.resources_failed = IF raised THEN @ + 1 ELSE @]]
    /\ UNCHANGED <<em, hd, rk, se, rr, ft, pz, env, jobs, srcs>>

\* "completed" if failed == 0 else ("partial" if created or updated else "failed")
KbartStatus(created, updated, failed) ==
    IF failed = 0 THEN "completed"
    ELSE IF created > 0 \/ updated > 0 THEN "partial" ELSE "failed"

\* after the rows: the counters, the status, job.save()
KbartFinalize(r) ==
    /\ runs[r].pc = "rows"
    /\ runs[r].i > Len(runs[r].records)
    /\ LET run == runs[r]
           done == [run EXCEPT !.pc = "source_stats",
                               !.job.resources_created = run.created,
                               !.job.resources_updated = run.updated,
                               !.job.resources_skipped = run.skipped,
                               !.job.resources_failed = run.failed,
                               !.job.status =
                                   KbartStatus(run.created, run.updated, run.failed)]
       IN  /\ runs' = [runs EXCEPT ![r] = done]
           /\ jobs' = SaveJob(jobs, done)
    /\ UNCHANGED <<em, hd, rk, se, rr, ft, pz, env, store, srcs>>

(***************************************************************************)
(* OERHarvester.harvest / _harvest_rest_api (services/oer_harvester.py),   *)
(* for a paginated REST source (supports_pagination, max_pages unset).     *)
(***************************************************************************)
\* HarvestJob.add_log has callers only; it is taken to append to log_messages
AddLog(job, level) == [job EXCEPT !.log_messages = Append(@, level)]

\* the records of page p of the server: PerPage records per page
RestPageRecords(feed, p) ==
    LET first == (p - 1) * PerPage + 1
        last == IF p * PerPage < Len(feed) THEN p * PerPage ELSE Len(feed)
    IN  IF first > Len(feed) THEN <<>> ELSE SubSeq(feed, first, last)

\* a server that never runs out: whatever the page number, a full page of
\* the same records
EndlessPage(feed) == [i \in 1..PerPage |-> feed[((i - 1) % Len(feed)) + 1]]

\* the resources of the response to the request for page p
RestResponse(e, p) ==
    IF e.endless THEN EndlessPage(e.feed) ELSE RestPageRecords(e.feed, p)

\* `max_pages and page >= max_pages` (max_pages None is 0 here)
MaxPagesReached(page, max_pages) == max_pages > 0 /\ page >= max_pages

\* Against a server that never runs out the page number, the counters and
\* the job log grow for ever.  There the counters are held at MaxCount and
\* the page number, once past MaxCount + 1, starts again at MaxCount: the
\* exit tests of the loop compare them with max_pages and the record cap,
\* which are both below MaxCount.
HeldAt(n) == IF env.endless /\ n > MaxCount THEN MaxCount ELSE n

HeldPage(n) == IF env.endless /\ n > MaxCount + 1 THEN MaxCount ELSE n

HeldLog(log) ==
    IF env.endless /\ Len(log) > MaxCount
    THEN SubSeq(log, Len(log) - MaxCount + 1, Len(log)) ELSE log

HeldCounters(run) ==
    [run EXCEPT !.page = HeldPage(@), !.found = HeldAt(@), !.created = HeldAt(@),
                !.updated = HeldAt(@), !.skipped = HeldAt(@),
                !.job.api_calls_made = HeldAt(@),
                !.job.pages_processed = HeldAt(@),
                !.job.log_messages = HeldLog(@)]

\* _has_next_page: no next link in the response, so `len(resources) >= max_per_page`
HasNextPage(resources) == Len(resources) >= PerPage

\* _process_resource: skipped without title or url; else the newest resource
\* with that url, of whatever source, is overwritten and re-attached to this
\* source, or a new one is created
ProcessResource(st, s, rec) ==
    LET m == MatchesUrl(st, rec.url)
        row == [source |-> s, url |-> rec.url, title |-> rec.title,
                description |-> rec.description]
    IN  IF rec.title = "" \/ rec.url = "" THEN [outcome |-> "skipped", store |-> st]
        ELSE IF m # {}
        THEN [outcome |-> "updated", store |-> [st EXCEPT ![MaxOf(m)] = row]]
        ELSE [outcome |-> "created", store |-> Append(st, row)]

\* `for resource_data in resources_data`: the page's records in order
RECURSIVE ProcessPage(_, _, _, _)
ProcessPage(acc, s, recs, k) ==
    IF k > Len(recs) THEN acc
    ELSE LET res == ProcessResource(acc.store, s, recs[k])
         IN  ProcessPage(
                [store |-> res.store,
                 created |-> acc.created + (IF res.outcome = "created" THEN 1 ELSE 0),
                 updated |-> acc.updated + (IF res.outcome = "updated" THEN 1 ELSE 0),
                 skipped |-> acc.skipped + (IF res.outcome = "skipped" THEN 1 ELSE 0)],
                s, recs, k + 1)

\* `max_resources_per_harvest > 0 and results['found'] >= max_resources_per_harvest`
RestCapReached(found, cap) == cap > 0 /\ found >= cap

\* harvest() logs the start and enters the page loop with page = 1
RestBegin(r) ==
    /\ runs[r].pc = "fetch"
    /\ env.harvester = "rest"
    /\ runs' = [runs EXCEPT ![r].pc = "page", ![r].page = 1,
                            ![r].job = AddLog(@, "info")]
    /\ UNCHANGED <<em, hd, rk, se, rr, ft, pz, env, store, jobs, srcs>>

\* one pass of `while True` whose request succeeds
RestPage(r) ==
    /\ runs[r].pc = "page"
    /\ LET run == runs[r]
           called == [run EXCEPT !.job = AddLog(@, "info"),
                                 !.job.api_calls_made = @ + 1,
                                 !.job.pages_processed = @ + 1]
           data == RestResponse(env, run.page)
           out == ProcessPage([store |-> store, created |-> 0, updated |-> 0,
                               skipped |-> 0], run.source, data, 1)
           counted == [called EXCEPT !.found = @ + Len(data),
                                     !.created = @ + out.created,
                                     !.updated = @ + out.updated,
                                     !.skipped = @ + out.skipped,
                                     !.touched = @ \/ out.store # store]
       IN  /\ jobs' = SaveJob(jobs, HeldCounters(called))
           /\ IF data = <<>>
              THEN /\ runs' = [runs EXCEPT ![r] =
                            [called EXCEPT !.pc = "finish", !.job = AddLog(@, "info")]]
                   /\ UNCHANGED store
              ELSE /\ store' = out.store
                   /\ runs' = [runs EXCEPT ![r] = HeldCounters(
                        IF MaxPagesReached(run.page, env.max_pages)
                        THEN [counted EXCEPT !.pc = "finish", !.job = AddLog(@, "info")]
                        ELSE IF ~HasNextPage(data)
                        THEN [counted EXCEPT !.pc = "finish", !.job = AddLog(@, "info")]
                        ELSE IF RestCapReached(counted.found, env.cap)
                        THEN [counted EXCEPT !.pc = "finish", !.page = @ + 1,
                                             !.job = AddLog(@, "info")]
                        ELSE [counted EXCEPT !.page = @ + 1])]
    /\ UNCHANGED <<em, hd, rk, se, rr, ft, pz, env, srcs>>

\* _make_request raises: the error is logged and re-raised to harvest()
RestPageRaises(r) ==
    /\ runs[r].pc = "page"
    /\ FaultsUsed < MaxFaults
    /\ runs' = [runs EXCEPT ![r] =
            [runs[r] EXCEPT !.pc = "except", !.error = "request failed",
                            !.faults = @ + 1,
                            !.job = AddLog(AddLog(@, "info"), "error")]]
    /\ UNCHANGED <<em, hd, rk, se, rr, ft, pz, env, store, jobs, srcs>>

\* harvest() after _harvest_rest_api returned: status, counters, job.save()
RestFinalize(r) ==
    /\ runs[r].pc = "finish"
    /\ LET run == runs[r]
           done == [run EXCEPT !.pc = "source_stats",
                               !.job.status = "completed",
                               !.job.resources_found = run.found,
                               !.job.resources_created = run.created,
                               !.job.resources_updated = run.updated,
                               !.job.resources_skipped = run.skipped]
       IN  /\ runs' = [runs EXCEPT ![r] = done]
           /\ jobs' = SaveJob(jobs, done)
    /\ UNCHANGED <<em, hd, rk, se, rr, ft, pz, env, store, srcs>>

(***************************************************************************)
(* Overlapping runs.  Nothing serialises two harvests: each web request or  *)
(* worker builds its own harvester around its own OERSource instance, and   *)
(* OERResource has no unique constraint on url or (source, url).  Here an   *)
(* upsert is its two database steps, the lookup and the write, and the      *)
(* steps of the two runs interleave freely.                                 *)
(***************************************************************************)
\* harvest() entered while another run may be under way
StartOverlappingRun(r, s) ==
    /\ runs[r].pc = "idle"
    /\ env.harvester # "ingest"
    /\ jobs' = Append(jobs, NewJob(s))
    /\ runs' = [runs EXCEPT ![r] =
            [RunIdle EXCEPT !.pc = "fetch", !.source = s, !.jid = Len(jobs) + 1,
                            !.job = NewJob(s), !.store0 = Len(store),
                            !.total_harvested = srcs[s].total_harvested]]
    /\ UNCHANGED <<em, hd, rk, se, rr, ft, pz, env, store, srcs>>

\* update_or_create, first half: get(url=...).  Several matches raise
\* MultipleObjectsReturned, which the loop handles as a failed record.
UpsertGet(r) ==
    /\ runs[r].pc = "upsert"
    /\ runs[r].i <= Len(runs[r].records)
    /\ LET run == runs[r]
           m == MatchesUrl(store, run.records[run.i].url)
       IN  runs' = [runs EXCEPT ![r] =
                IF Cardinality(m) > 1
                THEN [run EXCEPT !.i = @ + 1, !.raised = @ + 1,
                                 !.job.resources_failed =
                                     IF env.harvester = "base" THEN @ + 1 ELSE @]
                ELSE [run EXCEPT !.pc = "upsert_write",
                                 !.hit = IF m = {} THEN NoHit
                                         ELSE [outcome |-> "found",
                                               k |-> CHOOSE k \in m : TRUE,
                                               obj |-> store[CHOOSE k \in m : TRUE]]]]
    /\ UNCHANGED <<em, hd, rk, se, rr, ft, pz, env, store, jobs, srcs>>

\* update_or_create, second half: create when the lookup found nothing, else
\* overwrite the row found with every default
UpsertWrite(r) ==
    /\ runs[r].pc = "upsert_write"
    /\ LET run == runs[r]
           rec == run.records[run.i]
           row == [source |-> run.source, url |-> rec.url, title |-> rec.title,
                   description |-> rec.description]
           found == run.hit.outcome = "found"
       IN  /\ store' = IF found THEN [store EXCEPT ![run.hit.k] = row]
                        ELSE Append(store, row)
           /\ runs' = [runs EXCEPT ![r] =
                [run EXCEPT !.pc = "upsert", !.i = @ + 1, !.touched = TRUE,
                            !.hit = NoHit,
                            !.created = IF found THEN @ ELSE @ + 1,
                            !.updated = IF found THEN @ + 1 ELSE @]]
    /\ UNCHANGED <<em, hd, rk, se, rr, ft, pz, env, jobs, srcs>>

\* a KBART row, first half: the lookups by (url, source) and (title, source);
\* the resource found is held as a Python object
KbartRowGet(r) ==
    /\ runs[r].pc = "rows"
    /\ runs[r].i <= Len(runs[r].records)
    /\ LET run == runs[r]
           hit == KbartLookup(store, run.source, run.records[run.i])
       IN  runs' = [runs EXCEPT ![r] =
                IF hit.outcome = "raised"
                THEN [run EXCEPT !.i = @ + 1, !.raised = @ + 1, !.failed = @ + 1,
                                 !.job.pages_processed = @ + 1,
                                 !.job.resources_failed = @ + 1]
                ELSE [run EXCEPT !.pc = "rows_write",
                                 !.job.pages_processed = @ + 1,
                                 !.hit = IF hit.outcome = "found"
                                         THEN [outcome |-> "found", k |-> hit.k,
                                               obj |-> store[hit.k]]
                                         ELSE NoHit]]
    /\ UNCHANGED <<em, hd, rk, se, rr, ft, pz, env, store, jobs, srcs>>

\* a KBART row, second half: resource.save() writes the held object with the
\* non-empty defaults set on it, or OERResource.objects.create(...)
KbartRowWrite(r) ==
    /\ runs[r].pc = "rows_write"
    /\ LET run == runs[r]
           d == KbartDefaults(run.records[run.i])
           found == run.hit.outcome = "found"
       IN  /\ store' = IF found
                        THEN [store EXCEPT ![run.hit.k] = KbartMerge(run.hit.obj, d)]
                        ELSE Append(store, [source |-> run.source, url |-> d.url,
                                            title |-> d.title,
                                            description |-> d.description])
           /\ runs' = [runs EXCEPT ![r] =
                [run EXCEPT !.pc = "rows", !.i = @ + 1, !.touched = TRUE,
                            !.hit = NoHit,
                            !.created = IF found THEN @ ELSE @ + 1,
                            !.updated = IF found THEN @ + 1 ELSE @,
                            !.job.resources_found = @ + 1]]
    /\ UNCHANGED <<em, hd, rk, se, rr, ft, pz, env, jobs, srcs>>

(***************************************************************************)
(* ingest_record_dict(source, data) (harvesters/ingestion.py): one call per *)
(* caller.  The urls of RecordSet carry no surrounding blanks, so .strip()  *)
(* leaves them as they are.                                                 *)
(***************************************************************************)
\* the guard on the url and the lookup of update_or_create(source=, url=)
IngestGet(r, s, n) ==
    /\ runs[r].pc = "idle"
    /\ env.harvester = "ingest"
    /\ n \in 1..Len(env.feed)
    /\ LET rec == env.feed[n]
           m == {k \in 1..Len(store) : store[k].source = s /\ store[k].url = rec.url}
           call == [RunIdle EXCEPT !.source = s, !.records = <<rec>>, !.i = 1,
                                   !.store0 = Len(store)]
       IN  runs' = [runs EXCEPT ![r] =
                IF rec.url = ""
                THEN [call EXCEPT !.pc = "raised",
                                  !.error = "Cannot ingest record without a URL"]
                ELSE IF Cardinality(m) > 1
                THEN [call EXCEPT !.pc = "raised", !.error = "MultipleObjectsReturned"]
                ELSE [call EXCEPT !.pc = "ingest_write",
                                  !.hit = IF m = {} THEN NoHit
                                          ELSE [outcome |-> "found",
                                                k |-> CHOOSE k \in m : TRUE,
                                                obj |-> store[CHOOSE k \in m : TRUE]]]]
    /\ UNCHANGED <<em, hd, rk, se, rr, ft, pz, env, store, jobs, srcs>>

\* the write of update_or_create: every default is set, `data.get(f) or ""`
IngestWrite(r) ==
    /\ runs[r].pc = "ingest_write"
    /\ LET run == runs[r]
           rec == run.records[1]
           row == [source |-> run.source, url |-> rec.url, title |-> rec.title,
                   description |-> rec.description]
           found == run.hit.outcome = "found"
       IN  /\ store' = IF found THEN [store EXCEPT ![run.hit.k] = row]
                        ELSE Append(store, row)
           /\ runs' = [runs EXCEPT ![r] =
                [run EXCEPT !.pc = "returned", !.touched = TRUE, !.hit = NoHit,
                            !.created = IF found THEN @ ELSE @ + 1,
                            !.updated = IF found THEN @ + 1 ELSE @]]
    /\ UNCHANGED <<em, hd, rk, se, rr, ft, pz, env, jobs, srcs>>

(***************************************************************************)
(* APIHarvester._process_api_response (harvesters/api_harvester.py).  The   *)
(* JSON payload is {'results': [...]}; an element is an object, given as a  *)
(* function from the keys it holds to their values, or something that is    *)
(* not an object (a string, a number), on which .get raises.                *)
(***************************************************************************)
ApiKeys == {"title", "name", "url", "link", "identifier"}

ApiValues == {"", "t1", "n1", "u1", "u2"}

\* the values a key may carry in the payloads explored
ApiValuesOf(key) ==
    CASE key = "title" -> {"", "t1"}
      [] key = "name" -> {"n1"}
      [] key = "url" -> {"", "u1"}
      [] key = "link" -> {"u2"}
      [] key = "identifier" -> {"u1"}

UrlKeys == {"url", "link", "identifier"}

\* the objects explored: every combination of keys and values on one of the
\* two fallback chains, the other chain in its plain form (title 't1' or url
\* 'u1' alone), and the object that holds a name and nothing else
ApiObjects ==
    {f \in UNION {[D -> ApiValues] : D \in SUBSET ApiKeys} :
        /\ \A key \in DOMAIN f : f[key] \in ApiValuesOf(key)
        /\ \/ DOMAIN f \ UrlKeys = {"title"} /\ f["title"] = "t1"
           \/ DOMAIN f \cap UrlKeys = {"url"} /\ f["url"] = "u1"
           \/ DOMAIN f = {"name"}}

ApiElements ==
    {[isObject |-> TRUE, fields |-> f] : f \in ApiObjects}
        \cup {[isObject |-> FALSE, fields |-> <<>>]}

ApiPayloads == UNION {[1..n -> ApiElements] : n \in 0..MaxElements}

\* a lookup that falls back to the default also when the key holds an empty value
GetOrDefaultIfEmpty(fields, key, default) ==
    IF key \in DOMAIN fields /\ fields[key] # "" THEN fields[key] ELSE default

\* dict.get(key, default): the default is used only when the key is absent
Get(fields, key, default) ==
    IF key \in DOMAIN fields THEN fields[key] ELSE default

\* the resource_data dict built from one element
ApiResourceData(fields) ==
    [title |-> Get(fields, "title", Get(fields, "name", "")),
     url |-> Get(fields, "url", Get(fields, "link", Get(fields, "identifier", ""))),
     description |-> Get(fields, "description", Get(fields, "summary", ""))]

\* `for record in records`: an element on which .get raises is skipped by the
\* except clause; resource_data is appended `if title and url`
RECURSIVE ProcessApiResponse(_, _, _)
ProcessApiResponse(records, k, processed) ==
    IF k > Len(records) THEN processed
    ELSE IF ~records[k].isObject
    THEN ProcessApiResponse(records, k + 1, processed)
    ELSE LET resource_data == ApiResourceData(records[k].fields)
         IN  ProcessApiResponse(records, k + 1,
                IF resource_data.title # "" /\ resource_data.url # ""
                THEN Append(processed, resource_data) ELSE processed)

\* fetch_and_process_records() in APIHarvester.harvest: response.json() is
\* data, its 'results' go through _process_api_response, then the cap
ApiFetchAndProcess(r, data) ==
    /\ runs[r].pc = "fetch"
    /\ env.harvester = "api"
    /\ LET out == ProcessApiResponse(data.results, 1, <<>>)
       IN  /\ pz' = [op |-> "api", data |-> data, out |-> out]
           /\ runs' = [runs EXCEPT ![r].pc = "upsert",
                                   ![r].records = ApplyCap(out, env.cap),
                                   ![r].i = 1]
    /\ UNCHANGED <<em, hd, rk, se, rr, ft, env, store, jobs, srcs>>

(***************************************************************************)
(* OERSearchEngine._merge_results (services/search_engine.py).  A           *)
(* SearchResult is [id, final_score, match_reason]: id is result.resource.id *)
(* and final_score is held in units of 1/10000.  Both result lists come     *)
(* from queries over the resource table and name a resource at most once.   *)
(***************************************************************************)
SEIdle == [op |-> "none", semantic |-> <<>>, keyword |-> <<>>, limit |-> 0,
           out |-> <<>>]

ResourceIds == 1..3

Scores == {5900, 8400}

SemanticReasons == {"semantic_match", "semantic_and_keyword"}

SemanticHits == [id : ResourceIds, final_score : Scores, match_reason : SemanticReasons]

KeywordHits == [id : ResourceIds, final_score : Scores, match_reason : {"keyword_match"}]

\* the lists of at most MaxHits results of S that name no resource twice
ResultLists(S) ==
    {l \in UNION {[1..n -> S] : n \in 0..MaxHits} :
        \A i, j \in 1..Len(l) : l[i].id = l[j].id => i = j}

BoostPercent == 115

MaxScore(a, b) == IF a >= b THEN a ELSE b

\* where the dict holds the key, 0 when it does not
KeyIndex(merged, id) ==
    IF \E i \in 1..Len(merged) : merged[i].id = id
    THEN CHOOSE i \in 1..Len(merged) : merged[i].id = id
    ELSE 0

\* `for result in semantic_results: merged[result.resource.id] = result`;
\* the dict keeps its keys in insertion order
RECURSIVE MergeSemantic(_, _, _)
MergeSemantic(merged, results, k) ==
    IF k > Len(results) THEN merged
    ELSE LET at == KeyIndex(merged, results[k].id)
         IN  MergeSemantic(IF at = 0 THEN Append(merged, results[k])
                           ELSE [merged EXCEPT ![at] = results[k]],
                           results, k + 1)

\* `existing.final_score = max(existing.final_score, result.final_score) * 1.15;
\*  existing.match_reason = "hybrid_match"`
Boosted(existing, result) ==
    [existing EXCEPT
        !.final_score = (MaxScore(existing.final_score, result.final_score)
                            * BoostPercent) \div 100,
        !.match_reason = "hybrid_match"]

\* `for result in keyword_results`: boost the entry already there, else add
RECURSIVE MergeKeyword(_, _, _)
MergeKeyword(merged, results, k) ==
    IF k > Len(results) THEN merged
    ELSE LET at == KeyIndex(merged, results[k].id)
         IN  MergeKeyword(IF at = 0 THEN Append(merged, results[k])
                          ELSE [merged EXCEPT ![at] = Boosted(@, results[k])],
                          results, k + 1)

\* list.sort(key=final_score, reverse=True): stable, ties keep their order
RECURSIVE SortByScore(_)
SortByScore(results) ==
    IF results = <<>> THEN <<>>
    ELSE LET best == CHOOSE i \in 1..Len(results) :
                        /\ \A j \in 1..Len(results) :
                               results[j].final_score <= results[i].final_score
                        /\ \A j \in 1..(i - 1) :
                               results[j].final_score < results[i].final_score
         IN  <<results[best]>> \o
             SortByScore(SubSeq(results, 1, best - 1)
                            \o SubSeq(results, best + 1, Len(results)))

\* final_results[:limit]
Truncate(results, limit) ==
    IF Len(results) > limit THEN SubSeq(results, 1, limit) ELSE results

\* _merge_results(semantic_results, keyword_results, limit)
MergeResults(semantic, keyword, limit) ==
    /\ se.op = "none"
    /\ se' = [op |-> "merge", semantic |-> semantic, keyword |-> keyword,
              limit |-> limit,
              out |-> Truncate(SortByScore(
                        MergeKeyword(MergeSemantic(<<>>, semantic, 1), keyword, 1)),
                        limit)]
    /\ UNCHANGED <<em, hd, rk, rr, ft, pz, hv>>

(***************************************************************************)
(* OERSearchEngine.semantic_search, _keyword_search and hybrid_search      *)
(* (services/search_engine.py) over the OERResource table, with the        *)
(* retrievers of ai_processing.py.  The table is a list in queryset order  *)
(* (Meta.ordering); a resource is [id, is_active, title, description,      *)
(* subject, language, overall_quality_score, embedded, similarity], where  *)
(* embedded says content_embedding is not null and similarity is the       *)
(* cosine of the stored vector with the query vector.  Scores are held in  *)
(* units of 1/10000.  OERResource has no is_featured field, so the         *)
(* featured branch of _calculate_final_score is never taken.               *)
(***************************************************************************)
NoFilters == [k \in {} |-> 0]

RKIdle ==
    [op |-> "none", catalog |-> <<>>, query |-> <<>>, filters |-> NoFilters,
     limit |-> 0, qdrant |-> FALSE, semantic |-> <<>>, keyword |-> <<>>,
     out |-> <<>>, caught |-> "None", raised |-> "None", scored |-> {}]

QueryChars == {"t", "S", " "}

Queries == SeqsUpTo(QueryChars, MaxQueryLen)

\* the filters dict a caller passes: None, or one supported / unsupported key
FilterSets ==
    {NoFilters, [k \in {"min_quality"} |-> 3], [k \in {"subject"} |-> <<"S">>],
     [k \in {"language"} |-> "fr"]}

\* `sub in s`
Contains(s, sub) ==
    \E i \in 1..(Len(s) + 1) :
        i + Len(sub) - 1 <= Len(s) /\ SubSeq(s, i, i + Len(sub) - 1) = sub

\* str.split(): the maximal runs of non-whitespace characters
RECURSIVE Split(_, _, _)
Split(s, k, word) ==
    IF k > Len(s) THEN (IF word = <<>> THEN <<>> ELSE <<word>>)
    ELSE IF s[k] = " "
         THEN (IF word = <<>> THEN <<>> ELSE <<word>>) \o Split(s, k + 1, <<>>)
         ELSE Split(s, k + 1, Append(word, s[k]))

\* _apply_filters: subject is matched with __iexact, min_quality with __gte;
\* a key the function does not know (language) adds no condition
PassesFilters(res, filters) ==
    /\ "subject" \in DOMAIN filters
            => StrLower(res.subject) = StrLower(filters["subject"])
    /\ "min_quality" \in DOMAIN filters
            => res.overall_quality_score >= filters["min_quality"]

ApplyFilters(queryset, filters) ==
    SelectSeq(queryset, LAMBDA res : PassesFilters(res, filters))

\* the Q object of _keyword_search: an OR over the keywords and over the
\* fields title, description and subject; the empty Q() excludes nothing
MatchesKeywords(res, keywords) ==
    keywords = <<>> \/
    \E i \in 1..Len(keywords) :
        \/ Contains(StrLower(res.title), keywords[i])
        \/ Contains(StrLower(res.description), keywords[i])
        \/ Contains(StrLower(res.subject), keywords[i])

\* sum(1 for kw in keywords if kw in text.lower())
CountMatches(text, keywords) ==
    Cardinality({i \in 1..Len(keywords) : Contains(StrLower(text), keywords[i])})

\* (title_matches * 0.6 + desc_matches * 0.4) / len(keywords), len(keywords) > 0
KeywordScore(res, keywords) ==
    (CountMatches(res.title, keywords) * 6000
        + CountMatches(res.description, keywords) * 4000) \div Len(keywords)

QualityWeight == 600

\* SearchResult(final_score=keyword_score * 0.7 + (quality / 5.0) * 0.3)
KeywordResult(res, keywords) ==
    [id |-> res.id, similarity_score |-> KeywordScore(res, keywords),
     final_score |-> (KeywordScore(res, keywords) * 7) \div 10
                        + res.overall_quality_score * QualityWeight,
     match_reason |-> "keyword_match"]

\* _keyword_search up to the loop: is_active, filters, Q, [:limit]
KeywordQueryset(catalog, query, filters, limit) ==
    Truncate(
        SelectSeq(ApplyFilters(SelectSeq(catalog, LAMBDA res : res.is_active),
                               filters),
                  LAMBDA res : MatchesKeywords(res, Split(StrLower(query), 1, <<>>))),
        limit)

\* the loop of _keyword_search; the division raises for an empty keyword list
KeywordRaises(catalog, query, filters, limit) ==
    /\ Split(StrLower(query), 1, <<>>) = <<>>
    /\ KeywordQueryset(catalog, query, filters, limit) # <<>>

KeywordResults(catalog, query, filters, limit) ==
    LET qs == KeywordQueryset(catalog, query, filters, limit)
    IN  [i \in 1..Len(qs) |-> KeywordResult(qs[i], Split(StrLower(query), 1, <<>>))]

\* the ids of a list of resources or results
IdsOf(list) == {list[i].id : i \in 1..Len(list)}

\* _keyword_search(query, filters, limit)
KeywordSearch(query, filters, limit) ==
    /\ rk.op = "none"
    /\ LET call == [rk EXCEPT !.op = "keyword", !.query = query,
                              !.filters = filters, !.limit = limit]
       IN  IF KeywordRaises(rk.catalog, query, filters, limit)
           THEN rk' = [call EXCEPT !.raised = "ZeroDivisionError"]
           ELSE rk' = [call EXCEPT
                          !.keyword = KeywordResults(rk.catalog, query, filters, limit),
                          !.out = KeywordResults(rk.catalog, query, filters, limit),
                          !.scored = IdsOf(KeywordQueryset(rk.catalog, query,
                                                           filters, limit))]
    /\ UNCHANGED <<em, hd, se, rr, ft, pz, hv>>

\* NumpyInMemoryRetriever.build_vector_store: a retriever made by
\* get_retriever starts with an empty index and loads it on its first query
BuildVectorStore(catalog) ==
    SelectSeq(catalog, LAMBDA res : res.embedded /\ res.is_active)

\* scores.sort(key=score, reverse=True): stable, ties keep the index order
RECURSIVE SortBySimilarity(_)
SortBySimilarity(index) ==
    IF index = <<>> THEN <<>>
    ELSE LET best == CHOOSE i \in 1..Len(index) :
                        /\ \A j \in 1..Len(index) :
                               index[j].similarity <= index[i].similarity
                        /\ \A j \in 1..(i - 1) :
                               index[j].similarity < index[i].similarity
         IN  <<index[best]>> \o
             SortBySimilarity(SubSeq(index, 1, best - 1)
                                \o SubSeq(index, best + 1, Len(index)))

\* NumpyInMemoryRetriever.get_similar_resources(query, k)
NumpyGetSimilarResources(catalog, k) ==
    Truncate(SortBySimilarity(BuildVectorStore(catalog)), k)

\* get_retriever(preferred='qdrant'): QdrantRetriever() when its constructor
\* reaches the server, NumpyInMemoryRetriever() when it raises
GetRetriever(qdrant) == IF qdrant THEN "QdrantRetriever" ELSE "NumpyInMemoryRetriever"

\* what retriever.get_similar_resources does.  The def of line 109 stands at
\* module level, so QdrantRetriever has only BaseRetriever's method, which
\* raises NotImplementedError.
GetSimilarResources(retriever, catalog, k) ==
    IF retriever = "QdrantRetriever"
    THEN [raised |-> "NotImplementedError", hits |-> <<>>]
    ELSE [raised |-> "None", hits |-> NumpyGetSimilarResources(catalog, k)]

\* keyword_boost of _calculate_final_score: the whole lowered query as a
\* substring of the title (0.15 * 0.6) and of the description (0.15 * 0.4)
KeywordBoost(res, query) ==
    (IF Contains(StrLower(res.title), StrLower(query)) THEN 900 ELSE 0)
        + (IF Contains(StrLower(res.description), StrLower(query)) THEN 600 ELSE 0)

\* _calculate_final_score(resource, query)
CalculateFinalScore(res, query) ==
    [id |-> res.id, similarity_score |-> res.similarity,
     final_score |-> res.similarity + res.overall_quality_score * QualityWeight
                        + KeywordBoost(res, query),
     match_reason |-> IF KeywordBoost(res, query) > 0
                      THEN "semantic_and_keyword" ELSE "semantic_match"]

\* semantic_search(query, filters, limit): the body of its try block, then
\* `except Exception: return []`.  The filtered queryset of steps 2 and 3 is
\* built and never used.
SemanticSearchBody(catalog, query, filters, limit, qdrant, encodeFails) ==
    IF encodeFails
    THEN [caught |-> "EncodeError", out |-> <<>>, scored |-> {}]
    ELSE LET got == GetSimilarResources(GetRetriever(qdrant), catalog, limit * 2)
             results == [i \in 1..Len(got.hits) |->
                            CalculateFinalScore(got.hits[i], query)]
         IN  IF got.raised # "None"
             THEN [caught |-> got.raised, out |-> <<>>, scored |-> {}]
             ELSE [caught |-> "None",
                   out |-> Truncate(SortByScore(results), limit),
                   scored |-> IdsOf(got.hits)]

SemanticSearch(query, filters, limit, qdrant, encodeFails) ==
    /\ rk.op = "none"
    /\ LET body == SemanticSearchBody(rk.catalog, query, filters, limit,
                                      qdrant, encodeFails)
       IN  rk' = [rk EXCEPT !.op = "semantic", !.query = query,
                            !.filters = filters, !.limit = limit,
                            !.qdrant = qdrant, !.caught = body.caught,
                            !.out = body.out, !.scored = body.scored]
    /\ UNCHANGED <<em, hd, se, rr, ft, pz, hv>>

\* hybrid_search(query, filters, limit): semantic_search, then
\* _keyword_search outside any try, then _merge_results
HybridSearch(query, filters, limit, qdrant, encodeFails) ==
    /\ rk.op = "none"
    /\ LET body == SemanticSearchBody(rk.catalog, query, filters, limit,
                                      qdrant, encodeFails)
           call == [rk EXCEPT !.op = "hybrid", !.query = query,
                              !.filters = filters, !.limit = limit,
                              !.qdrant = qdrant, !.caught = body.caught,
                              !.semantic = body.out, !.scored = body.scored]
       IN  IF KeywordRaises(rk.catalog, query, filters, limit)
           THEN rk' = [call EXCEPT !.raised = "ZeroDivisionError"]
           ELSE LET keyword == KeywordResults(rk.catalog, query, filters, limit)
                IN  rk' = [call EXCEPT
                              !.keyword = keyword,
                              !.scored = @ \cup IdsOf(keyword),
                              !.out = Truncate(SortByScore(
                                          MergeKeyword(
                                              MergeSemantic(<<>>, body.out, 1),
                                              keyword, 1)),
                                          limit)]
    /\ UNCHANGED <<em, hd, se, rr, ft, pz, hv>>

\* the OERResource rows the search tables are drawn from: one base row and
\* the rows that differ from it in one field
BaseResource ==
    [is_active |-> TRUE, title |-> <<"T">>, description |-> <<"t">>,
     subject |-> <<>>, language |-> "en", overall_quality_score |-> 2,
     embedded |-> TRUE, similarity |-> 7000]

ResourceRows ==
    {BaseResource,
     [BaseResource EXCEPT !.is_active = FALSE],
     [BaseResource EXCEPT !.title = <<"S">>],
     [BaseResource EXCEPT !.title = <<"t", "s">>],
     [BaseResource EXCEPT !.description = <<>>],
     [BaseResource EXCEPT !.subject = <<"s">>],
     [BaseResource EXCEPT !.language = "fr"],
     [BaseResource EXCEPT !.overall_quality_score = 0],
     [BaseResource EXCEPT !.overall_quality_score = 5],
     [BaseResource EXCEPT !.embedded = FALSE],
     [BaseResource EXCEPT !.similarity = 4000]}

\* the tables of at most n rows of P; the id of a row is its place
Catalogs(P, n) ==
    {[i \in 1..Len(c) |-> [id |-> i] @@ c[i]] : c \in SeqsUpTo(P, n)}

\* rows with the same title, description and subject, which a query matches
\* or misses alike: they differ in quality, similarity and embedding
PeerRows ==
    {[BaseResource EXCEPT !.overall_quality_score = q, !.similarity = sim,
                          !.embedded = e] :
        q \in {2, 5}, sim \in {4000, 9500}, e \in BOOLEAN}

PeerQueries == {<<"t">>, <<"S">>}

(***************************************************************************)
(* The API key and the request headers of one API source over a sequence   *)
(* of harvests (harvesters/api_harvester.py).  hd.api_key and              *)
(* hd.request_headers are the stored OERSource row; hd.source is the       *)
(* OERSource object a harvester was built around.  request_headers is a    *)
(* dict, of which only the Authorization entry matters here; the dict of   *)
(* the config is the object's own dict, so writing to it writes to the     *)
(* object.  hd.sent lists, for every request, the Authorization sent and   *)
(* the api_key stored at that time.                                        *)
(***************************************************************************)
KeyValues == {"k1", "k2"}

NoHeaders == [h \in {} |-> <<>>]

NoSource == [api_key |-> "", request_headers |-> NoHeaders]

HDIdle ==
    [pc |-> "idle", api_key |-> "", request_headers |-> NoHeaders,
     source |-> NoSource, sent |-> <<>>, harvests |-> 0, changes |-> 0]

\* f"Bearer {config['api_key']}"
Bearer(key) == <<"Bearer", key>>

\* `if config.get('api_key'): if 'Authorization' not in headers:
\*      headers['Authorization'] = ...`
WithAuthorization(headers, api_key) ==
    IF api_key # "" /\ "Authorization" \notin DOMAIN headers
    THEN [h \in {"Authorization"} |-> Bearer(api_key)]
    ELSE headers

\* the Authorization header of the outgoing request, <<>> when there is none
AuthorizationOf(headers) ==
    IF "Authorization" \in DOMAIN headers THEN headers["Authorization"] ELSE <<>>

\* the administrator replaces the source's api_key
SetApiKey(key) ==
    /\ hd.pc = "idle"
    /\ hd.changes < MaxKeyChanges
    /\ key # hd.api_key
    /\ hd' = [hd EXCEPT !.api_key = key, !.changes = @ + 1]
    /\ UNCHANGED <<em, rk, se, rr, ft, pz, hv>>

\* APIHarvester(source) around the source as stored, then harvest() up to
\* the request of fetch_and_process_records
ApiHarvestRequest ==
    /\ hd.pc = "idle"
    /\ hd.harvests < MaxHarvests
    /\ LET headers == WithAuthorization(hd.request_headers, hd.api_key)
       IN  hd' = [hd EXCEPT
                    !.pc = "requested",
                    !.harvests = @ + 1,
                    !.source = [api_key |-> hd.api_key, request_headers |-> headers],
                    !.sent = Append(@, [Authorization |-> AuthorizationOf(headers),
                                        api_key |-> hd.api_key])]
    /\ UNCHANGED <<em, rk, se, rr, ft, pz, hv>>

\* the fetch succeeded: upserts, job.save(), then self.source.save(), which
\* writes the object's fields, request_headers among them
ApiHarvestSave ==
    /\ hd.pc = "requested"
    /\ hd' = [hd EXCEPT !.pc = "idle", !.api_key = hd.source.api_key,
                        !.request_headers = hd.source.request_headers,
                        !.source = NoSource]
    /\ UNCHANGED <<em, rk, se, rr, ft, pz, hv>>

\* the fetch raised: the except clause saves the job and re-raises; the
\* source object is dropped unsaved
ApiHarvestFails ==
    /\ hd.pc = "requested"
    /\ hd' = [hd EXCEPT !.pc = "idle", !.source = NoSource]
    /\ UNCHANGED <<em, rk, se, rr, ft, pz, hv>>

(***************************************************************************)
(* The save-triggered tasks of one OERResource (signals.py, tasks.py,      *)
(* services/ai_utils.py).  em.row is the stored row: whether it exists,    *)
(* whether content_embedding is set and whether content_hash is set.  The  *)
(* two queues hold the pending Celery tasks, each as its retry count; a    *)
(* task under way holds the instance it loaded, and the receiver reads the *)
(* instance that was saved, not the row.  em.saves and em.extractions      *)
(* count the saves by harvests and by extraction tasks, em.enqueued the    *)
(* embedding tasks the receiver has enqueued, em.late those it enqueued    *)
(* while the row had an embedding.                                         *)
(***************************************************************************)
\* @shared_task(bind=True, max_retries=3)
MaxRetries == 3

NoRowYet == [exists |-> FALSE, content_embedding |-> FALSE, content_hash |-> FALSE]

NoTask == [pc |-> "none", retries |-> 0, instance |-> NoRowYet]

EMIdle ==
    [row |-> NoRowYet, embed_queue |-> <<>>, extract_queue |-> <<>>,
     embed_task |-> NoTask, extract_task |-> NoTask,
     saves |-> 0, extractions |-> 0, enqueued |-> 0, late |-> 0]

\* enqueue_embedding_on_save(instance, created) after a save in state e; the
\* resource has a url
EnqueueEmbeddingOnSave(e, instance, created) ==
    LET embed == created \/ ~instance.content_embedding
        extract == created \/ ~instance.content_hash
    IN  [e EXCEPT
            !.embed_queue = IF embed THEN Append(@, 0) ELSE @,
            !.enqueued = IF embed THEN @ + 1 ELSE @,
            !.late = IF embed /\ e.row.content_embedding THEN @ + 1 ELSE @,
            !.extract_queue = IF extract THEN Append(@, 0) ELSE @]

\* an upsert creates the resource: save with created = True
UpsertCreates ==
    /\ ~em.row.exists
    /\ LET row == [NoRowYet EXCEPT !.exists = TRUE]
       IN  em' = EnqueueEmbeddingOnSave([em EXCEPT !.row = row], row, TRUE)
    /\ UNCHANGED <<hd, rk, se, rr, ft, pz, hv>>

\* a later harvest updates the resource: update_or_create loads the row,
\* sets the harvested fields and saves it
UpsertSaves ==
    /\ em.row.exists
    /\ em.saves < MaxSaves
    /\ em' = EnqueueEmbeddingOnSave([em EXCEPT !.saves = @ + 1], em.row, FALSE)
    /\ UNCHANGED <<hd, rk, se, rr, ft, pz, hv>>

\* a worker takes generate_embedding_for_resource off the queue;
\* compute_and_store_embedding_for_resource loads the resource
EmbeddingTaskLoads ==
    /\ em.embed_task.pc = "none"
    /\ em.embed_queue # <<>>
    /\ em' = [em EXCEPT !.embed_queue = Tail(@),
                        !.embed_task = [pc |-> "loaded",
                                        retries |-> Head(em.embed_queue),
                                        instance |-> em.row]]
    /\ UNCHANGED <<hd, rk, se, rr, ft, pz, hv>>

\* model.encode raises: self.retry(countdown=30) until max_retries = 3
EmbeddingTaskRetries ==
    /\ em.embed_task.pc = "loaded"
    /\ em' = [em EXCEPT
                !.embed_task = NoTask,
                !.embed_queue = IF em.embed_task.retries < MaxRetries
                                THEN Append(@, em.embed_task.retries + 1) ELSE @]
    /\ UNCHANGED <<hd, rk, se, rr, ft, pz, hv>>

\* resource.content_embedding = emb.tolist(); resource.save(): every field
\* of the loaded instance is written, then the receiver runs
EmbeddingTaskSaves ==
    /\ em.embed_task.pc = "loaded"
    /\ LET instance == [em.embed_task.instance EXCEPT !.content_embedding = TRUE]
       IN  em' = EnqueueEmbeddingOnSave(
                    [em EXCEPT !.embed_task = NoTask, !.row = instance],
                    instance, FALSE)
    /\ UNCHANGED <<hd, rk, se, rr, ft, pz, hv>>

\* a worker takes fetch_and_extract_content off the queue and loads the
\* resource; the download follows
ExtractionTaskLoads ==
    /\ em.extract_task.pc = "none"
    /\ em.extract_queue # <<>>
    /\ em' = [em EXCEPT !.extract_queue = Tail(@),
                        !.extract_task = [pc |-> "loaded",
                                          retries |-> Head(em.extract_queue),
                                          instance |-> em.row]]
    /\ UNCHANGED <<hd, rk, se, rr, ft, pz, hv>>

\* the download fails with something other than a 404: self.retry(countdown=60)
ExtractionTaskRetries ==
    /\ em.extract_task.pc = "loaded"
    /\ em' = [em EXCEPT
                !.extract_task = NoTask,
                !.extract_queue = IF em.extract_task.retries < MaxRetries
                                  THEN Append(@, em.extract_task.retries + 1) ELSE @]
    /\ UNCHANGED <<hd, rk, se, rr, ft, pz, hv>>

\* resource.save(update_fields=[extracted_text, content_hash, ...]): only
\* those columns are written, then the receiver runs on the loaded instance
ExtractionTaskSaves ==
    /\ em.extract_task.pc = "loaded"
    /\ LET instance == [em.extract_task.instance EXCEPT !.content_hash = TRUE]
       IN  em' = EnqueueEmbeddingOnSave(
                    [em EXCEPT !.extract_task = NoTask,
                               !.extractions = @ + 1,
                               !.row.content_hash = TRUE],
                    instance, FALSE)
    /\ UNCHANGED <<hd, rk, se, rr, ft, pz, hv>>

(***************************************************************************)
(* Specifications.  Each component is checked on its own; the variables of *)
(* the other components rest in their idle values.                         *)
(***************************************************************************)
HarvestIdle ==
    /\ env = [harvester |-> "base", cap |-> 0, feed |-> <<>>, max_pages |-> 0,
             endless |-> FALSE, malformed |-> FALSE]
    /\ store = <<>>
    /\ jobs = <<>>
    /\ srcs = [s \in Sources |-> [total_harvested |-> 0]]
    /\ runs = [r \in Runs |-> RunIdle]

InitHttp ==
    /\ rr = RRIdle
    /\ ft = FTIdle
    /\ pz = PZIdle
    /\ se = SEIdle
    /\ rk = RKIdle
    /\ hd = HDIdle
    /\ em = EMIdle
    /\ HarvestIdle

NextHttp ==
    \/ \E m \in 0..MaxAttempts : RequestWithRetryCall(m)
    \/ \E a \in Answers : RequestWithRetryAttempt(a)
    \/ RequestWithRetryExhausted
    \/ \E ad \in Adapters, n \in 0..MaxTokenPages : FetchStart(ad, n)
    \/ \E a \in Answers : FetchAttempt(a)

SpecHttp == InitHttp /\ [][NextHttp]_vars

InitParse ==
    /\ rr = RRIdle
    /\ ft = FTIdle
    /\ pz = PZIdle
    /\ se = SEIdle
    /\ rk = RKIdle
    /\ hd = HDIdle
    /\ em = EMIdle
    /\ HarvestIdle

NextParse ==
    \/ \E tier \in {"pymarc", "elementtree"}, t \in Titles,
          f \in SeqsUpTo(SubfieldLists, MaxFields) : ParseMarc(tier, t, f)
    \/ \E t \in Titles, ids \in SeqsUpTo(RawValues, MaxFields),
          u \in {Empty, Isbn}, l \in {Empty, HttpsX} : ParseOAI(t, ids, u, l)

SpecParse == InitParse /\ [][NextParse]_vars

InitHarvest ==
    /\ rr = RRIdle
    /\ ft = FTIdle
    /\ pz = PZIdle
    /\ se = SEIdle
    /\ rk = RKIdle
    /\ hd = HDIdle
    /\ em = EMIdle
    /\ env \in {e \in [harvester : Harvesters, cap : 0..MaxRecords, feed : FeedSet,
                          max_pages : {0}, endless : {FALSE},
                          malformed : BOOLEAN] :
                    /\ AdapterCanReturn(e.harvester, e.feed)
                    /\ e.malformed => (e.harvester = "base" /\ e.feed = <<>>)}
    /\ store = <<>>
    /\ jobs = <<>>
    /\ srcs = [s \in Sources |-> [total_harvested |-> 0]]
    /\ runs = [r \in Runs |-> RunIdle]

NextHarvest ==
    \/ \E r \in Runs, s \in Sources : StartRun(r, s)
    \/ \E r \in Runs : FetchReturns(r)
    \/ \E r \in Runs : FetchRaises(r)
    \/ \E r \in Runs, f \in BOOLEAN : UpsertRecord(r, f)
    \/ \E r \in Runs : FinalizeJob(r)
    \/ \E r \in Runs, f \in BOOLEAN : UpdateSourceStats(r, f)
    \/ \E r \in Runs : RecordSamples(r)
    \/ \E r \in Runs : HarvestExcept(r)
    \/ \E r \in Runs : KbartOpen(r)
    \/ \E r \in Runs : KbartOpenRaises(r)
    \/ \E r \in Runs : KbartReaderRaises(r)
    \/ \E r \in Runs, f \in BOOLEAN : KbartRow(r, f)
    \/ \E r \in Runs : KbartFinalize(r)
    \/ \E r \in Runs : RestBegin(r)
    \/ \E r \in Runs : RestPage(r)
    \/ \E r \in Runs : RestPageRaises(r)
    \/ \E r \in Runs : RestFinalize(r)

SpecHarvest == InitHarvest /\ [][NextHarvest]_vars

\* the steps of harvest() execution r once it has started
RunSteps(r) ==
    \/ FetchReturns(r)
    \/ FetchRaises(r)
    \/ \E f \in BOOLEAN : UpsertRecord(r, f)
    \/ FinalizeJob(r)
    \/ \E f \in BOOLEAN : UpdateSourceStats(r, f)
    \/ RecordSamples(r)
    \/ HarvestExcept(r)
    \/ KbartOpen(r)
    \/ KbartOpenRaises(r)
    \/ KbartReaderRaises(r)
    \/ \E f \in BOOLEAN : KbartRow(r, f)
    \/ KbartFinalize(r)
    \/ RestBegin(r)
    \/ RestPage(r)
    \/ RestPageRaises(r)
    \/ RestFinalize(r)

\* Runs against every kind of source, the REST server that never runs out
\* included.  A harvest() call that has started keeps executing: every
\* statement completes and every HTTP call returns or fails within its
\* timeout, so a run that can take a step eventually takes one.
InitLive ==
    /\ rr = RRIdle
    /\ ft = FTIdle
    /\ pz = PZIdle
    /\ se = SEIdle
    /\ rk = RKIdle
    /\ hd = HDIdle
    /\ em = EMIdle
    /\ env \in {e \in [harvester : Harvesters, cap : 0..1, feed : FeedSet,
                          max_pages : 0..1, endless : BOOLEAN,
                          malformed : {FALSE}] :
                    /\ AdapterCanReturn(e.harvester, e.feed)
                    /\ e.max_pages > 0 => e.harvester = "rest"
                    /\ e.endless => (e.harvester = "rest" /\ e.feed # <<>>)}
    /\ store = <<>>
    /\ jobs = <<>>
    /\ srcs = [s \in Sources |-> [total_harvested |-> 0]]
    /\ runs = [r \in Runs |-> RunIdle]

NextLive ==
    \/ \E r \in Runs, s \in Sources : StartRun(r, s)
    \/ \E r \in Runs : RunSteps(r)

SpecLive == InitLive /\ [][NextLive]_vars /\ \A r \in Runs : WF_vars(RunSteps(r))

InitKeys ==
    /\ rr = RRIdle
    /\ ft = FTIdle
    /\ pz = PZIdle
    /\ se = SEIdle
    /\ rk = RKIdle
    /\ hd \in {[HDIdle EXCEPT !.api_key = key] : key \in KeyValues \cup {""}}
    /\ em = EMIdle
    /\ HarvestIdle

NextKeys ==
    \/ \E key \in KeyValues \cup {""} : SetApiKey(key)
    \/ ApiHarvestRequest
    \/ ApiHarvestSave
    \/ ApiHarvestFails

SpecKeys == InitKeys /\ [][NextKeys]_vars

InitTasks ==
    /\ rr = RRIdle
    /\ ft = FTIdle
    /\ pz = PZIdle
    /\ se = SEIdle
    /\ rk = RKIdle
    /\ hd = HDIdle
    /\ em = EMIdle
    /\ HarvestIdle

NextTasks ==
    \/ UpsertCreates
    \/ UpsertSaves
    \/ EmbeddingTaskLoads
    \/ EmbeddingTaskRetries
    \/ EmbeddingTaskSaves
    \/ ExtractionTaskLoads
    \/ ExtractionTaskRetries
    \/ ExtractionTaskSaves

SpecTasks == InitTasks /\ [][NextTasks]_vars

OverlapCallers == {"base", "api", "kbart", "ingest"}

InitOverlap ==
    /\ rr = RRIdle
    /\ ft = FTIdle
    /\ pz = PZIdle
    /\ se = SEIdle
    /\ rk = RKIdle
    /\ hd = HDIdle
    /\ em = EMIdle
    /\ env \in {e \in [harvester : OverlapCallers, cap : {0}, feed : FeedSet,
                          max_pages : {0}, endless : {FALSE},
                          malformed : {FALSE}] :
                    AdapterCanReturn(e.harvester, e.feed)}
    /\ store = <<>>
    /\ jobs = <<>>
    /\ srcs = [s \in Sources |-> [total_harvested |-> 0]]
    /\ runs = [r \in Runs |-> RunIdle]

NextOverlap ==
    \/ \E r \in Runs, s \in Sources : StartOverlappingRun(r, s)
    \/ \E r \in Runs : FetchReturns(r)
    \/ \E r \in Runs : UpsertGet(r)
    \/ \E r \in Runs : UpsertWrite(r)
    \/ \E r \in Runs : FinalizeJob(r)
    \/ \E r \in Runs, f \in BOOLEAN : UpdateSourceStats(r, f)
    \/ \E r \in Runs : RecordSamples(r)
    \/ \E r \in Runs : HarvestExcept(r)
    \/ \E r \in Runs : KbartOpen(r)
    \/ \E r \in Runs : KbartRowGet(r)
    \/ \E r \in Runs : KbartRowWrite(r)
    \/ \E r \in Runs : KbartFinalize(r)
    \/ \E r \in Runs, s \in Sources, n \in 1..MaxRecords : IngestGet(r, s, n)
    \/ \E r \in Runs : IngestWrite(r)

SpecOverlap == InitOverlap /\ [][NextOverlap]_vars

\* one API harvest of source A against an empty store; the cap is off (0),
\* cuts (1) or exceeds the number of elements of the payload
InitApi ==
    /\ rr = RRIdle
    /\ ft = FTIdle
    /\ pz = PZIdle
    /\ se = SEIdle
    /\ rk = RKIdle
    /\ hd = HDIdle
    /\ em = EMIdle
    /\ env \in [harvester : {"api"}, cap : {0, 1, MaxElements + 1}, feed : {<<>>},
                max_pages : {0}, endless : {FALSE}, malformed : {FALSE}]
    /\ store = <<>>
    /\ jobs = <<>>
    /\ srcs = [s \in Sources |-> [total_harvested |-> 0]]
    /\ runs = [r \in Runs |-> RunIdle]

NextApi ==
    \/ StartRun("r1", "A")
    \/ \E data \in [results : ApiPayloads] : ApiFetchAndProcess("r1", data)
    \/ UpsertRecord("r1", FALSE)
    \/ FinalizeJob("r1")
    \/ UpdateSourceStats("r1", FALSE)

SpecApi == InitApi /\ [][NextApi]_vars

InitSearch ==
    /\ rr = RRIdle
    /\ ft = FTIdle
    /\ pz = PZIdle
    /\ se = SEIdle
    /\ rk = RKIdle
    /\ hd = HDIdle
    /\ em = EMIdle
    /\ HarvestIdle

NextSearch ==
    \E semantic \in ResultLists(SemanticHits), keyword \in ResultLists(KeywordHits),
       limit \in 1..(MaxHits + 1) : MergeResults(semantic, keyword, limit)

SpecSearch == InitSearch /\ [][NextSearch]_vars

InitRank ==
    /\ rr = RRIdle
    /\ ft = FTIdle
    /\ pz = PZIdle
    /\ se = SEIdle
    /\ hd = HDIdle
    /\ em = EMIdle
    /\ rk \in {[RKIdle EXCEPT !.catalog = c] : c \in Catalogs(ResourceRows, MaxCatalog)}
    /\ HarvestIdle

NextRank ==
    \E query \in Queries, filters \in FilterSets, limit \in 1..MaxLimit :
        \/ KeywordSearch(query, filters, limit)
        \/ \E qdrant \in BOOLEAN, encodeFails \in BOOLEAN :
              \/ SemanticSearch(query, filters, limit, qdrant, encodeFails)
              \/ HybridSearch(query, filters, limit, qdrant, encodeFails)

SpecRank == InitRank /\ [][NextRank]_vars

InitPeers ==
    /\ rr = RRIdle
    /\ ft = FTIdle
    /\ pz = PZIdle
    /\ se = SEIdle
    /\ hd = HDIdle
    /\ em = EMIdle
    /\ rk \in {[RKIdle EXCEPT !.catalog = c] : c \in Catalogs(PeerRows, MaxPeers)}
    /\ HarvestIdle

NextPeers ==
    \E query \in PeerQueries, limit \in 1..MaxPeers :
        \/ KeywordSearch(query, NoFilters, limit)
        \/ \E qdrant \in BOOLEAN, encodeFails \in BOOLEAN :
              \/ SemanticSearch(query, NoFilters, limit, qdrant, encodeFails)
              \/ HybridSearch(query, NoFilters, limit, qdrant, encodeFails)

SpecPeers == InitPeers /\ [][NextPeers]_vars


(***************************************************************************)
(* Properties of the HTTP layer (SpecHttp).                                *)
(***************************************************************************)
AllTransient(answers) == \A i \in 1..Len(answers) : IsTransient(answers[i])

AllTransientStatus(answers) ==
    \A i \in 1..Len(answers) :
        answers[i].kind = "resp" /\ IsTransientStatus(answers[i].status)

IsPermanent(a) ==
    a.kind = "resp" /\ 400 <= a.status /\ a.status < 500 /\ a.status # 429

\* C1: request_with_retry called with max_attempts = M never issues more than
\* M HTTP requests; when every attempt is answered with 429, a 5xx status or a
\* network-level exception it issues exactly M requests and then raises, and
\* never returns a response.
C1_RetryBound ==
    /\ rr.requests <= rr.max_attempts
    /\ (rr.pc \in {"returned", "raised"} /\ AllTransient(rr.answers)) =>
           /\ rr.pc = "raised"
           /\ rr.requests = rr.max_attempts
           /\ rr.result = NoResponse
           /\ rr.last_exc # "None"

C1_Witness ==
    /\ rr.pc = "raised"
    /\ rr.max_attempts = 3
    /\ rr.requests = 3
    /\ \A i \in 1..3 : rr.answers[i].kind = "resp" /\ rr.answers[i].status = 503

\* C2: when the OAI-PMH server answers N successive ListRecords requests with
\* a non-empty resumptionToken and then one without, the fetch issues exactly
\* N+1 successful requests and returns the records of all N+1 pages.
C2_OAIFollowsTokens ==
    (ft.adapter = "oai" /\ ft.pc = "returned" /\ ft.parsed.status = 200) =>
        /\ Len(ft.served) = ft.tokenPages + 1
        /\ OAIServerToken(ft.served[Len(ft.served)], ft.tokenPages) = 0
        /\ ft.records = [p \in 1..(ft.tokenPages + 1) |-> p]

\* C8: when every attempt of an API or OAI-PMH fetch is answered with 429 or a
\* 5xx status, fetch_and_process_records raises, the harvest job ends failed,
\* and the body of the last error response is never parsed into records.
C8_TransientEscalated ==
    (ft.pc \in {"returned", "raised"} /\ AllTransientStatus(ft.answers)) =>
        /\ ft.pc = "raised"
        /\ ft.job = "failed"

\* C9: a response with a 4xx status other than 429 ends the HTTP call after
\* that single attempt; no further request is issued, in request_with_retry and
\* in the fetch loops of the API and OAI-PMH adapters.
C9_PermanentNotRetried ==
    /\ \A i \in 1..Len(rr.answers) : IsPermanent(rr.answers[i]) => i = Len(rr.answers)
    /\ \A i \in 1..Len(ft.answers) : IsPermanent(ft.answers[i]) => i = Len(ft.answers)

(***************************************************************************)
(* Properties of the record parsers (SpecParse).                           *)
(***************************************************************************)
\* C4: every record produced by the MARCXML adapter (both tiers) and by the
\* OAI-PMH adapter has url = "" or a url starting with http:// or https://
\* (the scheme compared without regard to case, as _normalise_url does); an
\* ISBN or other non-URL identifier is never placed in the url field.
C4_UrlOnly ==
    (pz.op # "none" /\ pz.accepted) =>
        \/ pz.rec.url = Empty
        \/ StartsWith(StrLower(pz.rec.url), HttpScheme)
        \/ StartsWith(StrLower(pz.rec.url), HttpsScheme)

(***************************************************************************)
(* Properties of the harvest job controllers (SpecHarvest).                *)
(***************************************************************************)
Min(a, b) == IF a < b THEN a ELSE b

FetchErrors ==
    {"fetch failed", "request failed", "Unexpected error during KBART harvest"}

\* C3: with max_resources_per_harvest = N > 0, every harvest run that
\* completes ends with resources_found <= N and
\* resources_found = min(rawRecordCount, N), and upserts at most N records.
C3_CapInvariant ==
    \A r \in Runs :
        (runs[r].pc = "returned" /\ runs[r].faults = 0 /\ env.cap > 0) =>
            /\ jobs[runs[r].jid].resources_found <= env.cap
            /\ jobs[runs[r].jid].resources_found = Min(Len(env.feed), env.cap)
            /\ runs[r].created + runs[r].updated <= env.cap

\* C5: the same harvest run twice in sequence against unchanged source data
\* creates nothing the second time and leaves the number of stored resources
\* unchanged (BaseHarvester.harvest and KBARTHarvester.harvest_from_path).
C5_UpsertIdempotent ==
    ( /\ env.harvester \in {"base", "kbart"}
      /\ runs["r1"].pc = "returned" /\ runs["r2"].pc = "returned"
      /\ runs["r1"].source = runs["r2"].source
      /\ FaultsUsed = 0 ) =>
        /\ jobs[runs["r2"].jid].resources_created = 0
        /\ Len(store) = runs["r2"].store0

\* C6: once a job has been saved with a terminal status no field of it is
\* written again; in particular it never changes from completed to failed.
C6_TerminalImmutable ==
    [][\A j \in 1..Len(jobs) : jobs[j].status \in Terminal => jobs'[j] = jobs[j]]_vars

\* C7: whenever the adapter fetch raises during a harvest run, at the first or
\* at any later page, the job ends failed with a non-empty error_message, its
\* found / created / updated counters are 0, and the run has created or
\* modified no resource.
C7_NoPartialCredit ==
    \A r \in Runs :
        (runs[r].pc = "raised" /\ runs[r].error \in FetchErrors) =>
            /\ jobs[runs[r].jid].status = "failed"
            /\ jobs[runs[r].jid].error_message # ""
            /\ jobs[runs[r].jid].resources_found = 0
            /\ jobs[runs[r].jid].resources_created = 0
            /\ jobs[runs[r].jid].resources_updated = 0
            /\ ~runs[r].touched

\* C10: for every outcome of the fetch and of the upsert loop harvest()
\* returns to its caller with the job in a terminal status; no exception
\* propagates to the caller.
C10_ErrorBoundary ==
    \A r \in Runs :
        Finished(r) =>
            /\ runs[r].pc = "returned"
            /\ jobs[runs[r].jid].status \in Terminal

\* C11: in the upsert loop of every harvest controller each record whose
\* upsert raises adds exactly one to the job's persisted resources_failed and
\* the loop goes on to every later record; after the run the persisted
\* resources_failed equals the number of records whose upsert raised.
C11_IsolatedFaults ==
    \A r \in Runs :
        (runs[r].pc = "returned" /\ env.harvester \in {"base", "api", "kbart"}) =>
            /\ runs[r].i = Len(runs[r].records) + 1
            /\ jobs[runs[r].jid].resources_failed = runs[r].raised

\* the status the final status rule gives to a finished upsert loop
StatusRule(succeeded, failed) ==
    IF failed = 0 THEN "completed"
    ELSE IF succeeded > 0 THEN "partial" ELSE "failed"

\* C12: after the upsert loop of a run whose fetch succeeded the job is saved
\* completed if no record failed, partial if some failed and some were created
\* or updated, failed if every record failed (BaseHarvester.harvest and
\* KBARTHarvester.harvest_from_path).
C12_FinalStatusRule ==
    \A r \in Runs :
        (runs[r].pc = "source_stats" /\ env.harvester \in {"base", "kbart"}) =>
            jobs[runs[r].jid].status =
                StatusRule(runs[r].created + runs[r].updated, runs[r].raised)

\* C14: a harvest run for source A leaves every resource that belongs to
\* another source unchanged, fields and source reference, also when a record
\* of A carries the URL of a resource of B (a new resource is then created).
C14_OtherSourcesUntouched ==
    [][\A r \in Runs :
          runs'[r] # runs[r] =>
              \A k \in 1..Len(store) :
                  store[k].source # runs[r].source => store'[k] = store[k]]_vars

\* the value a conservative merge leaves in a field
Merged(new, old) == IF new # "" THEN new ELSE old

\* C15: when an upsert matches an existing resource, each field of the stored
\* resource afterwards equals the record's value if that value is non-empty
\* and otherwise keeps its previous value; an empty description never blanks
\* a stored one.
C15_ConservativeMerge ==
    [][\A r \in Runs :
          ( /\ runs[r].pc \in {"upsert", "rows"}
            /\ runs'[r].pc = runs[r].pc
            /\ runs'[r].i = runs[r].i + 1
            /\ Len(store') = Len(store) ) =>
              \A k \in 1..Len(store) :
                  store'[k] # store[k] =>
                      LET rec == runs[r].records[runs[r].i]
                      IN  /\ store'[k].title = Merged(rec.title, store[k].title)
                          /\ store'[k].description =
                                 Merged(rec.description, store[k].description)]_vars

\* C16: no record with an empty URL reaches the upsert / create step: the
\* record the controller is about to pass to update_or_create has a non-empty
\* url and no resource with an empty url is ever stored, so a record lacking
\* both title and URL is dropped before that step.
C16_NoEmptyUrlUpsert ==
    /\ \A r \in Runs :
          (runs[r].pc = "upsert" /\ runs[r].i <= Len(runs[r].records)) =>
              runs[r].records[runs[r].i].url # ""
    /\ \A k \in 1..Len(store) : store[k].url # ""

Accounted(job) ==
    job.resources_created + job.resources_updated + job.resources_skipped

C13_ResourceIdentity ==
    \A a, b \in 1..Len(store) :
        ( /\ store[a].url # ""
          /\ store[a].url = store[b].url
          /\ store[a].source = store[b].source ) => a = b

\* C17: for any interleaving of two harvest runs for the same source that
\* create c1 and c2 resources, the source's total_harvested after both runs
\* have finished equals its initial value (0) + c1 + c2.
C17_NoLostUpdate ==
    ( /\ env.harvester \in {"base", "kbart"}
      /\ runs["r1"].pc = "returned" /\ runs["r2"].pc = "returned"
      /\ runs["r1"].source = runs["r2"].source
      /\ FaultsUsed = 0 ) =>
        srcs[runs["r1"].source].total_harvested =
            runs["r1"].created + runs["r2"].created

(***************************************************************************)
(* Properties of the API adapter (SpecApi).                                *)
(***************************************************************************)
\* the value of the first key of the chain that the element holds, else ""
Resolved(fields, chain) ==
    LET present == {i \in 1..Len(chain) : chain[i] \in DOMAIN fields}
    IN  IF present = {} THEN ""
        ELSE fields[chain[CHOOSE i \in present : \A j \in present : i <= j]]

ApiAccepts(el) ==
    /\ el.isObject
    /\ Resolved(el.fields, <<"title", "name">>) # ""
    /\ Resolved(el.fields, <<"url", "link", "identifier">>) # ""

NoUrlAlias(el) ==
    \A key \in {"url", "link", "identifier"} :
        el.isObject /\ key \in DOMAIN el.fields => el.fields[key] = ""

CompleteElement == [isObject |-> TRUE, fields |-> [title |-> "t1", url |-> "u1"]]

NameOnlyElement == [isObject |-> TRUE, fields |-> [name |-> "n1"]]

\* C19: APIHarvester returns exactly those elements of the results array, in
\* input order, that are objects whose resolved title (title, else name when
\* the element has no title key) and resolved URL (url, else link, else
\* identifier) are both non-empty; an element with no URL under any alias is
\* rejected; a payload of one complete and one name-only record under a cap
\* above their number gives a completed job, resources_found = 1 and
\* resources_created = 1.
C19_ApiAcceptance ==
    pz.op = "api" =>
        LET els == pz.data.results
            kept == SelectSeq(els, ApiAccepts)
        IN  /\ Len(pz.out) = Len(kept)
            /\ \A i \in 1..Len(kept) :
                   /\ pz.out[i].title = Resolved(kept[i].fields, <<"title", "name">>)
                   /\ pz.out[i].url =
                          Resolved(kept[i].fields, <<"url", "link", "identifier">>)
            /\ \A i \in 1..Len(els) : NoUrlAlias(els[i]) => ~ApiAccepts(els[i])
            /\ ( /\ els = <<CompleteElement, NameOnlyElement>>
                 /\ env.cap > Len(els)
                 /\ runs["r1"].pc = "returned" ) =>
                    /\ jobs[1].status = "completed"
                    /\ jobs[1].resources_found = 1
                    /\ jobs[1].resources_created = 1

C19_Witness ==
    /\ pz.op = "api"
    /\ pz.data.results = <<CompleteElement, NameOnlyElement>>
    /\ env.cap > 2
    /\ runs["r1"].pc = "returned"
    /\ Len(store) = 1

(***************************************************************************)
(* Properties of the search engine (SpecSearch).                           *)
(***************************************************************************)
InList(results, id) == \E i \in 1..Len(results) : results[i].id = id

ResultOf(results, id) == results[CHOOSE i \in 1..Len(results) : results[i].id = id]

\* C20: _merge_results returns each resource identity at most once; a
\* resource present in both lists gets final_score = max(semanticFinal,
\* keywordFinal) * 1.15 and match reason "hybrid"; a resource present in only
\* one list keeps that list's final_score and match reason.
C20_HybridMerge ==
    se.op = "merge" =>
        /\ \A i, j \in 1..Len(se.out) : se.out[i].id = se.out[j].id => i = j
        /\ \A i \in 1..Len(se.out) :
               LET id == se.out[i].id
                   inS == InList(se.semantic, id)
                   inK == InList(se.keyword, id)
               IN  /\ inS \/ inK
                   /\ (inS /\ inK) =>
                          /\ se.out[i].final_score * 100 =
                                 MaxScore(ResultOf(se.semantic, id).final_score,
                                          ResultOf(se.keyword, id).final_score)
                                     * BoostPercent
                          /\ se.out[i].match_reason = "hybrid"
                   /\ (inS /\ ~inK) => se.out[i] = ResultOf(se.semantic, id)
                   /\ (inK /\ ~inS) => se.out[i] = ResultOf(se.keyword, id)

(***************************************************************************)
(* Properties of the search passes.                                        *)
(***************************************************************************)
\* C21: for every query (repeated tokens and whitespace-only queries
\* included) and every resource, the keyword score that _keyword_search
\* computes is defined, i.e. the call does not raise, and lies in [0, 1].
C21_KeywordScoreRange ==
    rk.op = "keyword" =>
        /\ rk.raised = "None"
        /\ \A i \in 1..Len(rk.out) :
               0 <= rk.out[i].similarity_score /\ rk.out[i].similarity_score <= 10000

\* two rows that differ in nothing but overall_quality_score (and their id)
SameSignals(a, b) ==
    [a EXCEPT !.id = 0, !.overall_quality_score = 0]
        = [b EXCEPT !.id = 0, !.overall_quality_score = 0]

\* C22: of two resources with the same similarity and keyword signals and
\* the quality scores 2 and 5, the one of quality 5 has the strictly higher
\* final_score in the results of the semantic pass, of the keyword pass and
\* of the hybrid merge.
C22_QualityMonotone ==
    rk.op \in {"semantic", "keyword", "hybrid"} =>
        \A i, j \in 1..Len(rk.catalog) :
            (/\ SameSignals(rk.catalog[i], rk.catalog[j])
             /\ rk.catalog[i].overall_quality_score = 2
             /\ rk.catalog[j].overall_quality_score = 5
             /\ InList(rk.out, i) /\ InList(rk.out, j))
                => ResultOf(rk.out, j).final_score > ResultOf(rk.out, i).final_score

\* C23: whatever the query (empty and whitespace-only ones included) and
\* whatever fails inside, semantic_search and hybrid_search return a list
\* and raise nothing to their caller.
C23_SearchNeverRaises ==
    rk.op \in {"semantic", "hybrid"} => rk.raised = "None"

\* what the caller's filters ask of a resource, the language filter included
Eligible(res, filters) ==
    /\ res.is_active
    /\ PassesFilters(res, filters)
    /\ "language" \in DOMAIN filters => res.language = filters["language"]

\* C24: every resource that semantic_search or hybrid_search scores or
\* returns is active and satisfies every filter of the call.
C24_FiltersPrecedeScoring ==
    rk.op \in {"semantic", "hybrid"} =>
        \A id \in IdsOf(rk.out) \cup rk.scored : Eligible(rk.catalog[id], rk.filters)

\* C25: over the same table, query and k the retriever that
\* get_retriever('qdrant') returns with Qdrant reachable answers with the
\* same resources as NumpyInMemoryRetriever, and semantic_search returns the
\* same resources with either backend.
C25_BackendAgnostic ==
    (rk.op = "semantic" /\ rk.caught # "EncodeError") =>
        LET qdrant == GetSimilarResources(GetRetriever(TRUE), rk.catalog, rk.limit * 2)
            numpy == GetSimilarResources(GetRetriever(FALSE), rk.catalog, rk.limit * 2)
            other == SemanticSearchBody(rk.catalog, rk.query, rk.filters, rk.limit,
                                        ~rk.qdrant, FALSE)
        IN  /\ qdrant.raised = "None"
            /\ IdsOf(qdrant.hits) = IdsOf(numpy.hits)
            /\ IdsOf(rk.out) = IdsOf(other.out)

C27_ParseFailureFailsJob ==
    \A r \in Runs :
        (env.harvester = "base" /\ env.malformed /\ Finished(r)) =>
            /\ jobs[runs[r].jid].status = "failed"
            /\ jobs[runs[r].jid].error_message # ""

(***************************************************************************)
(* Properties of request_with_retry's waiting.  rr.sleeps holds, for each   *)
(* time.sleep(backoff_factor ** attempts) of the call, the exponent.        *)
(***************************************************************************)
\* C28: the sleep after failed attempt k lasts backoff_factor^k, every sleep
\* is followed by a further attempt, and a call that has ended after A
\* attempts has slept exactly A - 1 times.
C28_BackoffSchedule ==
    /\ \A k \in 1..Len(rr.sleeps) : rr.sleeps[k] = k
    /\ (rr.pc \in {"returned", "raised"} /\ rr.attempts >= 1) =>
            Len(rr.sleeps) = rr.attempts - 1

(***************************************************************************)
(* Properties of the API source's headers.                                 *)
(***************************************************************************)
\* C29: starting from stored headers without an Authorization entry, the
\* harvests leave the stored request_headers as they were, and every
\* request of a source with an api_key carries "Bearer <the key stored at
\* that time>".
C29_AuthorizationPerRun ==
    /\ hd.request_headers = NoHeaders
    /\ \A i \in 1..Len(hd.sent) :
           hd.sent[i].api_key # "" =>
               hd.sent[i].Authorization = Bearer(hd.sent[i].api_key)

====
